---------------------------- MODULE Spec2Model ----------------------------
(***************************************************************************)
(* A model of detgeo_pyqt (src/detgeo_pyqt6.py and the variant             *)
(* src/detgeo_pyqt6_dd.py): the detector footprint, the conic solver       *)
(* calc_conic, the reference series of get_cif_reference / get_reference   *)
(* and the redraw handlers of MainWindow.                                  *)
(*                                                                         *)
(* Numbers.  The program computes in float64.  The model computes in       *)
(* fixed point on integers:                                                *)
(*   - lengths are integers in micrometres (all detector sizes of the      *)
(*     library are whole micrometres), saturating at +-Sat;                *)
(*   - ratios (sin, cos, eccentricity, the parameter t of a parabola or    *)
(*     hyperbola) are integers scaled by SC;                               *)
(*   - angles are integers in 1/100 degree (cdeg).                         *)
(* A float that is "almost zero" (cos(pi/2) = 6.1e-17) is the integer 0,   *)
(* and a division by it saturates, as the float division overflows to a    *)
(* huge value.  NaN is the sentinel NaN: it fails every range test.        *)
(***************************************************************************)
EXTENDS Integers, Sequences, FiniteSets, TLC

(***************************************************************************)
(*                        Fixed-point arithmetic                           *)
(***************************************************************************)
\* resolution of a ratio: 4 decimal digits stand for the float mantissa
SC == 10000
\* the largest length (1 km in micrometres): stands for a huge float / inf
Sat == 1000000000
\* the float NaN (np.arcsin of an argument outside [-1, 1])
NaN == 2000000000

Abs(x) == IF x < 0 THEN -x ELSE x
Sgn(x) == IF x > 0 THEN 1 ELSE IF x < 0 THEN -1 ELSE 0
Min(a, b) == IF a <= b THEN a ELSE b
Max(a, b) == IF a >= b THEN a ELSE b
Clamp(x) == IF x > Sat THEN Sat ELSE IF x < -Sat THEN -Sat ELSE x

\* a * s / SC, truncated toward zero, saturating
MulS(a, s) ==
  LET Mul(aa, sh, sl) ==
        IF sh > 0 /\ aa > Sat \div sh
          THEN Sat
          ELSE Min(aa * sh + (aa \div SC) * sl + ((aa % SC) * sl) \div SC, Sat)
  IN  Sgn(a) * Sgn(s) * Mul(Min(Abs(a), Sat), Abs(s) \div SC, Abs(s) % SC)

\* a * SC / c, truncated toward zero, saturating; c = 0 is the tiny float
DivS(a, c) ==
  LET Div(aa, cc) ==
        IF aa \div cc >= Sat \div SC THEN Sat
        ELSE (aa \div cc) * SC + ((aa % cc) * SC) \div cc
      Scaled(k) == Div(Min(Abs(a), Sat) \div k, Abs(c) \div k)
  IN  IF c = 0 THEN Sgn(a) * Sat
      ELSE Sgn(a) * (IF c < 0 THEN -1 ELSE 1) * Scaled(Abs(c) \div 100000 + 1)

RECURSIVE SqrtIter(_, _)
SqrtIter(n, x) ==
  LET y == (x + n \div x) \div 2
  IN  IF y >= x THEN x ELSE SqrtIter(n, y)

\* floor(sqrt(n)), 0 <= n < 2^31
ISqrt(n) == IF n <= 0 THEN 0 ELSE SqrtIter(n, 46341)

\* sqrt(a^2 + b^2) of two lengths
Hypot(a, b) ==
  LET Norm(x, y, k) == ISqrt(x * x + y * y) * k
      Scaled(k) == Norm(Abs(a) \div k, Abs(b) \div k, k)
  IN  Scaled(Max(Abs(a), Abs(b)) \div 30000 + 1)

\* sqrt(a * b) of two lengths of the same sign
GeoMean(a, b) ==
  LET Scaled(k) == ISqrt((Abs(a) \div k) * (Abs(b) \div k)) * k
  IN  Scaled(Max(Abs(a), Abs(b)) \div 30000 + 1)

\* sqrt(e^2 - 1) of a ratio e with |e| >= 1
SqrtE21(e) ==
  LET Root(x, o, k) == ISqrt(x * x - o * o) * k
      Scaled(k) == Root(Abs(e) \div k, SC \div k, k)
  IN  Scaled(Abs(e) \div 30000 + 1)

(***************************************************************************)
(*                 np.sin, np.cos, np.tan, np.arcsin                       *)
(***************************************************************************)
\* SC * sin(d degrees), d = 0..90
SinT ==
  << 0, 175, 349, 523, 698, 872, 1045, 1219, 1392, 1564, 1736, 1908, 2079,
     2250, 2419, 2588, 2756, 2924, 3090, 3256, 3420, 3584, 3746, 3907, 4067, 4226,
     4384, 4540, 4695, 4848, 5000, 5150, 5299, 5446, 5592, 5736, 5878, 6018, 6157,
     6293, 6428, 6561, 6691, 6820, 6947, 7071, 7193, 7314, 7431, 7547, 7660, 7771,
     7880, 7986, 8090, 8192, 8290, 8387, 8480, 8572, 8660, 8746, 8829, 8910, 8988,
     9063, 9135, 9205, 9272, 9336, 9397, 9455, 9511, 9563, 9613, 9659, 9703, 9744,
     9781, 9816, 9848, 9877, 9903, 9925, 9945, 9962, 9976, 9986, 9994, 9998, 10000 >>

\* sine of x cdeg, 0 <= x <= 9000, by linear interpolation of SinT
SinQ(x) ==
  LET Interp(T, d, f) ==
        IF f = 0 THEN T[d + 1]
        ELSE T[d + 1] + ((T[d + 2] - T[d + 1]) * f + 50) \div 100
  IN  Interp(SinT, x \div 100, x % 100)

Sin(a) ==
  (IF a % 36000 <= 18000 THEN 1 ELSE -1)
  * SinQ(IF a % 36000 <= 9000 THEN a % 36000
         ELSE IF a % 36000 <= 18000 THEN 18000 - (a % 36000)
         ELSE IF a % 36000 <= 27000 THEN (a % 36000) - 18000
         ELSE 36000 - (a % 36000))

Cos(a) == Sin(a + 9000)

\* arcsin of a ratio in 0..SC, in cdeg
ArcSinQ(s) ==
  LET Interp(T, d) == d * 100 + ((s - T[d + 1]) * 100) \div (T[d + 2] - T[d + 1])
      Lookup(T) == Interp(T, CHOOSE i \in 0..89 : T[i + 1] <= s /\ s < T[i + 2])
  IN  IF s >= SC THEN 9000 ELSE Lookup(SinT)

\* np.arcsin: NaN outside [-1, 1]
ArcSin(s) ==
  IF Abs(s) > SC THEN NaN
  ELSE (IF s < 0 THEN -1 ELSE 1) * ArcSinQ(Abs(s))

(***************************************************************************)
(*                 np.sinh, np.cosh, np.arcsinh                            *)
(***************************************************************************)
\* the step of the tables: t = 0, 1/8, 2/8, ... 12
HStep == 1250
HMax == 120000

\* SC * sinh(k/8), k = 0..96
SinhT ==
  << 0, 1253, 2526, 3839, 5211, 6665, 8223, 9910,
     11752, 13778, 16019, 18511, 21293, 24408, 27904, 31837,
     36269, 41267, 46912, 53290, 60502, 68661, 77894, 88345,
     100179, 113580, 128758, 145950, 165426, 187490, 212488, 240810,
     272899, 309258, 350456, 397136, 450030, 509965, 577878, 654833,
     742032, 840841, 952805, 1079676, 1223439, 1386343, 1570937, 1780109,
     2017132, 2285713, 2590054, 2934919, 3325701, 3768514, 4270288, 4838872,
     5483161, 6213237, 7040521, 7977956, 9040209, 10243900, 11607860, 13153429,
     14904788, 16889338, 19138128, 21686340, 24573843, 27845813, 31553440, 35754732,
     40515419, 45909985, 52022828, 58949587, 66798634, 75692769, 85771144, 97191439,
     110132329, 124796278, 141412709, 160241593, 181577513, 205754278, 233150142, 264193723,
     299370708, 339231455, 384399599, 435581811, 493578855, 559298116, 633767795, 718152997,
     813773957 >>

\* SC * cosh(k/8), k = 0..96
CoshT ==
  << 10000, 10078, 10314, 10711, 11276, 12018, 12947, 14079,
     15431, 17024, 18884, 21040, 23524, 26377, 29642, 33371,
     37622, 42462, 47966, 54220, 61323, 69385, 78533, 88909,
     100677, 114019, 129146, 146293, 165728, 187757, 212723, 241017,
     273082, 309420, 350598, 397262, 450141, 510063, 577965, 654909,
     742099, 840900, 952858, 1079723, 1223480, 1386379, 1570969, 1780137,
     2017156, 2285735, 2590074, 2934936, 3325716, 3768528, 4270300, 4838882,
     5483170, 6213245, 7040528, 7977962, 9040215, 10243905, 11607864, 13153433,
     14904792, 16889341, 19138130, 21686343, 24573845, 27845814, 31553441, 35754733,
     40515420, 45909986, 52022829, 58949588, 66798635, 75692769, 85771144, 97191439,
     110132329, 124796278, 141412710, 160241593, 181577514, 205754279, 233150142, 264193723,
     299370709, 339231455, 384399599, 435581811, 493578855, 559298116, 633767795, 718152997,
     813773957 >>

\* the table T at |t|, by linear interpolation; t a ratio, |t| <= HMax
HInterp(T, t) ==
  LET Interp(lo, df, f) ==
        IF f = 0 THEN lo
        ELSE lo + (IF df <= 1000000 THEN (df * f) \div HStep
                   ELSE (df \div HStep) * f)
      At(k, f) == Interp(T[k + 1], T[Min(k + 2, Len(T))] - T[k + 1], f)
      Within(u) == At(u \div HStep, u % HStep)
  IN  Within(Min(Abs(t), HMax))

Sinh(t) == Sgn(t) * HInterp(SinhT, t)
Cosh(t) == HInterp(CoshT, t)

\* arcsinh of a ratio, as a ratio
ArcSinh(s) ==
  LET Interp(k, nu, df) ==
        k * HStep + (IF df <= 1000000 THEN (nu * HStep) \div df
                     ELSE nu \div (df \div HStep))
      At(T, u, k) == Interp(k, u - T[k + 1], T[k + 2] - T[k + 1])
      Lookup(T, u) ==
        IF u >= T[97] THEN HMax
        ELSE At(T, u, CHOOSE i \in 0..95 : T[i + 1] <= u /\ u < T[i + 2])
  IN  Sgn(s) * Lookup(SinhT, Abs(s))

\* element k (0-based) of np.linspace(lo, hi, n); a NaN end makes every
\* element NaN but the last, which numpy sets to hi itself
Linspace(lo, hi, n, k) ==
  IF n > 1 /\ k = n - 1 THEN hi
  ELSE IF lo = NaN \/ hi = NaN THEN NaN
  ELSE IF n = 1 THEN lo
  ELSE lo + ((hi - lo) * k) \div (n - 1)


(***************************************************************************)
(*                     calc_conic (both variants)                          *)
(***************************************************************************)
\* np.tan, as a ratio
Tan(a) == DivS(Sin(a), Cos(a))

\* a length that is not halved
Unhalved(x) == x

\* x / 2 and x * 1.05, x * 1.1 of a length
Half(x) == Sgn(x) * (Abs(x) \div 2)
P105(x) == (x * 105) \div 100
P110(x) == (x * 110) \div 100

\* |omega| in whole degrees for which the float comparison
\* deg2rad(90 + |omega|) > pi/2 + deg2rad(|omega|) is true by rounding
BackTie == { 5, 6, 14, 15, 23, 28, 37, 46, 55, 60, 64, 69, 73, 78, 82 }

\* a guard that never fires
BackscatterNever(omega, theta) == FALSE

\* theta > np.pi/2 + abs(omega)
Backscatter(omega, theta) ==
  \/ theta > 9000 + Abs(omega)
  \/ /\ theta = 9000 + Abs(omega)
     /\ Abs(omega) % 100 = 0
     /\ (Abs(omega) \div 100) \in BackTie

\* ecc = np.round(np.cos(np.pi/2 - omega) / np.cos(theta), 10): the rounding
\* absorbs float noise only, so the result is 0 or +-1 exactly when the two
\* cosines are equal in magnitude or the numerator vanishes
Ecc(omega, theta) ==
  LET Rounded(num, den, e, sg) ==
        IF Abs(num) = Abs(den) THEN (IF num = 0 THEN SC ELSE sg * SC)
        ELSE IF num = 0 THEN 0
        ELSE IF Abs(e) = SC THEN (IF Abs(num) > Abs(den) THEN e + sg ELSE e - sg)
        ELSE IF e = 0 THEN sg
        ELSE e
      Ratio(num, den) ==
        Rounded(num, den, DivS(num, den), Sgn(num) * (IF den < 0 THEN -1 ELSE 1))
  IN  Ratio(Cos(9000 - omega), Cos(theta))

\* the quantities calc_conic computes before it branches; g is the geometry
\* (dist, xoff, yoff in mm, tilt in degrees), omega and theta in cdeg
ConicGeom(g, omega, theta) ==
  LET Geom(dist, dy_cone, sin_theta, cos_sum, cos_diff, ecc) ==
        LET dz_cone   == Hypot(dist, dy_cone)
            sth       == MulS(dz_cone, sin_theta)
            comp_tilt == Sgn(g.tilt) * ((Abs(g.tilt) * g.dist * 17453) \div 1000)
        IN  [ dist      |-> dist,
              dy_cone   |-> dy_cone,
              dz_cone   |-> dz_cone,
              comp_tilt |-> comp_tilt,
              ecc       |-> ecc,
              sth       |-> sth,
              y1        |-> DivS(sth, cos_sum),
              y2        |-> DivS(sth, cos_diff),
              y0        |-> Clamp(dy_cone - g.yoff * 1000 + comp_tilt),
              x0        |-> g.xoff * 1000 ]
  IN  Geom(g.dist * 1000, MulS(g.dist * 1000, Tan(omega)), Sin(theta),
           Cos(omega + theta), Cos(omega - theta), Ecc(omega, theta))

\* an if / elif chain without the straight line
BranchWithoutLine(ecc) ==
  IF Abs(ecc) = 0 THEN "circle"
  ELSE IF Abs(ecc) < SC THEN "ellipse"
  ELSE IF Abs(ecc) = SC THEN "parabola"
  ELSE "hyperbola"

\* an if / elif chain without the parabola: |ecc| = 1 selects no branch
BranchWithoutParabola(ecc) ==
  IF Abs(ecc) = 0 THEN "circle"
  ELSE IF 0 < Abs(ecc) /\ Abs(ecc) < SC THEN "ellipse"
  ELSE IF SC < Abs(ecc) /\ Abs(ecc) < 100 * SC THEN "hyperbola"
  ELSE IF Abs(ecc) >= 100 * SC THEN "line"
  ELSE "none"

\* which branch of the if / elif chain the rounded eccentricity selects
Branch(ecc) ==
  IF Abs(ecc) = 0 THEN "circle"
  ELSE IF 0 < Abs(ecc) /\ Abs(ecc) < SC THEN "ellipse"
  ELSE IF Abs(ecc) = SC THEN "parabola"
  ELSE IF SC < Abs(ecc) /\ Abs(ecc) < 100 * SC THEN "hyperbola"
  ELSE IF Abs(ecc) >= 100 * SC THEN "line"
  ELSE "none"

\* what calc_conic returns when it returns False, False, False
Invisible(br) ==
  [ vis |-> FALSE, err |-> FALSE, x |-> << >>, y |-> << >>, label |-> 0, branch |-> br ]

\* max(y), min(y)
SeqMax(s) == CHOOSE m \in { s[i] : i \in DOMAIN s } : \A i \in DOMAIN s : s[i] <= m
SeqMin(s) == CHOOSE m \in { s[i] : i \in DOMAIN s } : \A i \in DOMAIN s : s[i] >= m

\* a label position that takes no account of cones wider than 90 degrees
LabelPosForward(omega, theta, y) ==
  IF omega <= 0 THEN SeqMax(y) ELSE SeqMin(y)

\* the label position of calc_conic
LabelPos(omega, theta, y) ==
  IF omega <= 0
    THEN (IF theta < 9000 THEN SeqMax(y) ELSE SeqMin(y))
    ELSE (IF theta < 9000 THEN SeqMin(y) ELSE SeqMax(y))

\* np.array: a sequence whose elements are computed once
Array(f) == f \o << >>

\* a - b of two angles, NaN if b is NaN
Less(a, b) == IF b = NaN THEN NaN ELSE a - b

\* the half width of the ellipse along x
EllipseW(c) ==
  MulS(DivS(c.sth, Cos(c.theta)), DivS(Clamp(c.y1 + c.y2), 2 * GeoMean(c.y1, c.y2)))

\* an ellipse cut into two arcs as soon as one side passes the margin
SegmentedEither(xlim1, xlim2) == xlim1 < SC \/ xlim2 < SC

\* the ellipse is cut into two arcs: it passes the margin on both sides
Segmented(xlim1, xlim2) == xlim1 < SC /\ xlim2 < SC

\* the sampled parameter ts of each branch of detgeo_pyqt6.py, and the
\* points x and y at every element of it
SamplesMain(c, xdim, ydim, omega, steps) ==
  LET br == Branch(c.ecc)
      h  == Half(Clamp(c.y1 + c.y2))
      yd == Half(Clamp(c.y1 - c.y2))
      Full == Array([k \in 1..(2 * steps) |-> Linspace(0, 36000, 2 * steps, k - 1)])
      Circle(ts) ==
        [ x |-> Array([k \in DOMAIN ts |-> Clamp(c.x0 + MulS(h, Sin(ts[k])))]),
          y |-> Array([k \in DOMAIN ts |-> Clamp(c.y0 + yd + MulS(h, Cos(ts[k])))]) ]
      Arcs(l, r) ==
        Array([k \in 1..(2 * steps) |->
                 IF k <= steps THEN Linspace(l, r, steps, k - 1)
                 ELSE Linspace(Less(18000, r), Less(18000, l), steps, k - steps - 1)])
      Margin(xlim1, xlim2) ==
        IF Segmented(xlim1, xlim2)
          THEN Arcs(Less(0, ArcSin(xlim1)), ArcSin(xlim2))
          ELSE Full
      Ellipse(w, ts) ==
        [ x |-> Array([k \in DOMAIN ts |->
                   IF ts[k] = NaN THEN NaN ELSE Clamp(c.x0 + MulS(w, Sin(ts[k])))]),
          y |-> Array([k \in DOMAIN ts |->
                   IF ts[k] = NaN THEN NaN ELSE Clamp(c.y0 + yd + MulS(h, Cos(ts[k])))]) ]
      Parabola(pyd, a, ts) ==
        [ x |-> Array([k \in DOMAIN ts |-> Clamp(c.x0 + MulS(a, ts[k]))]),
          y |-> Array([k \in DOMAIN ts |->
                   Clamp(Clamp(c.y0 - c.dy_cone)
                         + Clamp(pyd + MulS(MulS(Half(a), ts[k]), ts[k])))]) ]
      Hyperbola(hh, w, ts) ==
        [ x |-> Array([k \in DOMAIN ts |-> Clamp(c.x0 + MulS(w, Sinh(ts[k])))]),
          y |-> Array([k \in DOMAIN ts |-> Clamp(Clamp(c.y0 + yd) - MulS(hh, Cosh(ts[k])))]) ]
      Line(a) == [ x |-> << -xdim, xdim >>, y |-> << Clamp(c.y0 + a), Clamp(c.y0 + a) >> ]
      Between(l, r) == Array([k \in 1..steps |-> Linspace(l, r, steps, k - 1)])
      EllipseOf(w) ==
        Ellipse(w, Margin(DivS(P105(xdim) + c.x0, w), DivS(P105(xdim) - c.x0, w)))
      ParabolaOf(pyd, a) ==
        Parabola(pyd, a, Between(-DivS(xdim + c.x0, a), DivS(xdim - c.x0, a)))
      HyperbolaOf(hh, w) ==
        Hyperbola(hh, w, Between(-ArcSinh(DivS(xdim + c.x0, w)),
                                 ArcSinh(DivS(xdim - c.x0, w))))
  IN  CASE br = "circle" -> Circle(Full)
        [] br = "ellipse" ->
             EllipseOf(EllipseW(c))
        [] br = "parabola" ->
             ParabolaOf(Sgn(c.ecc) * MulS(c.dist, Tan(Abs(omega) - c.theta)),
                        Sgn(c.ecc) * MulS(c.dist, Tan(c.theta)))
        [] br = "hyperbola" ->
             HyperbolaOf(Sgn(omega) * h, MulS(Sgn(omega) * h, SqrtE21(c.ecc)))
        [] OTHER -> Line(-Sgn(c.ecc) * Min(Abs(c.y1), Abs(c.y2)))

\* calc_conic of detgeo_pyqt6.py after the backscatter guard; c is the cone
ConicMain(c, xdim, ydim, omega, theta, steps) ==
  LET Cropped(br, p, cx, cy) ==
        IF cy = {} \/ cx = {} THEN Invisible(br)
        ELSE [ vis |-> TRUE, err |-> FALSE, x |-> p.x, y |-> p.y,
               label |-> LabelPos(omega, theta, p.y), branch |-> br ]
      Checked(br, p) ==
        Cropped(br, p, { k \in DOMAIN p.x : p.x[k] >= -xdim /\ p.x[k] <= xdim },
                       { k \in DOMAIN p.y : p.y[k] >= -ydim /\ p.y[k] <= ydim })
  IN  IF /\ Branch(c.ecc) = "circle"
         /\ Half(Clamp(c.y1 + c.y2)) - Hypot(c.y0, c.x0) > Hypot(ydim, xdim)
        THEN Invisible(Branch(c.ecc))
        ELSE Checked(Branch(c.ecc), SamplesMain(c, xdim, ydim, omega, steps))

\* calc_conic of detgeo_pyqt6.py
CalcConicMain(g, xdim, ydim, omega, theta, steps) ==
  IF Backscatter(omega, theta) THEN Invisible("back")
  ELSE ConicMain(ConicGeom(g, omega, theta) @@ [theta |-> theta],
                 xdim, ydim, omega, theta, steps)

\* the sampled points of each branch of detgeo_pyqt6_dd.py
SamplesDD(c, omega, steps) ==
  LET br == Branch(c.ecc)
      h  == Half(Clamp(c.y1 + c.y2))
      yd == Half(Clamp(c.y1 - c.y2))
      Between(l, r) == Array([k \in 1..steps |-> Linspace(l, r, steps, k - 1)])
      Ellipse(w, ts) ==
        [ x |-> Array([k \in DOMAIN ts |-> Clamp(c.x0 + MulS(w, Sin(ts[k])))]),
          y |-> Array([k \in DOMAIN ts |-> Clamp(c.y0 + yd + MulS(h, Cos(ts[k])))]) ]
      Parabola(pyd, a, ts) ==
        [ x |-> Array([k \in DOMAIN ts |-> Clamp(c.x0 + MulS(a, ts[k]))]),
          y |-> Array([k \in DOMAIN ts |->
                   Clamp(Clamp(c.y0 - c.dy_cone)
                         + Clamp(pyd + MulS(MulS(Half(a), ts[k]), ts[k])))]) ]
      Hyperbola(hh, w, ts) ==
        [ x |-> Array([k \in DOMAIN ts |-> Clamp(c.x0 + MulS(w, Sinh(ts[k])))]),
          y |-> Array([k \in DOMAIN ts |-> Clamp(Clamp(c.y0 + yd) - MulS(hh, Cosh(ts[k])))]) ]
      Line(a, ts) ==
        [ x |-> Array([k \in DOMAIN ts |-> Clamp(c.x0 + MulS(a, ts[k]))]),
          y |-> Array([k \in DOMAIN ts |-> Clamp(c.y0 + 2 * a)]) ]
  IN  CASE br \in {"circle", "ellipse"} ->
             Ellipse(MulS(DivS(c.sth, Cos(c.theta)),
                          DivS(Clamp(c.y1 + c.y2), 2 * GeoMean(c.y1, c.y2))),
                     Between(-18000, 18000))
        [] br = "parabola" ->
             Parabola(Sgn(c.ecc) * MulS(c.dist, Tan(Abs(omega) - c.theta)),
                      Sgn(c.ecc) * MulS(c.dist, Tan(c.theta)),
                      Between(-10 * SC, 10 * SC))
        [] br = "hyperbola" ->
             Hyperbola(Sgn(omega) * h, MulS(Sgn(omega) * h, SqrtE21(c.ecc)),
                       Between(-31416, 31416))
        [] OTHER -> Line(-Sgn(c.ecc) * Half(Min(Abs(c.y1), Abs(c.y2))),
                         Between(-10 * SC, 10 * SC))

SetMin(S) == CHOOSE m \in S : \A i \in S : m <= i
SetMax(S) == CHOOSE m \in S : \A i \in S : m >= i

\* the crop of calc_conic of detgeo_pyqt6_dd.py on the samples x, y and the
\* label anchor; err: max() / min() of an empty crop raises ValueError
CropDD(br, x, y, xlim, ylim, omega, theta) ==
  LET Cut(lo, hi) ==
        IF hi < lo
          THEN [ vis |-> FALSE, err |-> TRUE, x |-> << >>, y |-> << >>,
                 label |-> 0, branch |-> br ]
          ELSE [ vis |-> TRUE, err |-> FALSE,
                 x |-> SubSeq(x, lo, hi), y |-> SubSeq(y, lo, hi),
                 label |-> LabelPos(omega, theta, SubSeq(y, lo, hi)), branch |-> br ]
      Cropped(cx, cy) ==
        IF cy = {} \/ cx = {} THEN Invisible(br)
        ELSE Cut(Max(SetMin(cx), SetMin(cy)), Min(SetMax(cx), SetMax(cy)))
  IN  Cropped({ k \in DOMAIN x : x[k] >= -xlim /\ x[k] <= xlim },
              { k \in DOMAIN y : y[k] >= -ylim /\ y[k] <= ylim })

\* calc_conic of detgeo_pyqt6_dd.py after the backscatter guard; c is the cone
ConicDD(c, xdim, ydim, omega, theta, steps) ==
  LET Checked(br, p) == CropDD(br, p.x, p.y, P110(xdim), P110(ydim), omega, theta)
  IN  Checked(Branch(c.ecc), SamplesDD(c, omega, steps))

\* calc_conic of detgeo_pyqt6_dd.py
CalcConicDD(g, xdim, ydim, omega, theta, steps) ==
  IF Backscatter(omega, theta) THEN Invisible("back")
  ELSE ConicDD(ConicGeom(g, omega, theta) @@ [theta |-> theta],
               xdim, ydim, omega, theta, steps)

\* calc_conic of the variant v
CalcConic(v, g, xdim, ydim, omega, theta, steps) ==
  IF v = "main" THEN CalcConicMain(g, xdim, ydim, omega, theta, steps)
  ELSE CalcConicDD(g, xdim, ydim, omega, theta, steps)

(***************************************************************************)
(*            The detector library, get_specs_det, build_detector          *)
(***************************************************************************)
\* get_det_library of detgeo_pyqt6.py: sizes in micrometres, gaps in pixels
DetLibMain ==
  ( "PILATUS3" :> [ hms |-> 83800, vms |-> 33500, pxs |-> 172, hgp |-> 7, vgp |-> 17, cbh |-> 0,
                    size |-> ("300K" :> <<1, 3>> @@ "1M" :> <<2, 5>> @@ "2M" :> <<3, 8>> @@ "6M" :> <<5, 12>>) ]
 @@ "PILATUS4" :> [ hms |-> 75000, vms |-> 39000, pxs |-> 150, hgp |-> 19, vgp |-> 6, cbh |-> 0,
                    size |-> ("1M" :> <<2, 4>> @@ "2M" :> <<3, 6>> @@ "4M" :> <<4, 8>>) ]
 @@ "EIGER2" :> [ hms |-> 77100, vms |-> 38400, pxs |-> 75, hgp |-> 38, vgp |-> 12, cbh |-> 0,
                  size |-> ("1M" :> <<1, 2>> @@ "4M" :> <<2, 4>> @@ "9M" :> <<3, 6>> @@ "16M" :> <<4, 8>>) ]
 @@ "MPCCD" :> [ hms |-> 51200, vms |-> 25600, pxs |-> 50, hgp |-> 18, vgp |-> 27, cbh |-> 3000,
                 size |-> ("4M" :> <<2, 4>>) ]
 @@ "RAYONIX" :> [ hms |-> 75000, vms |-> 75000, pxs |-> 39, hgp |-> 0, vgp |-> 0, cbh |-> 0,
                   size |-> ("MX225-HS" :> <<3, 3>> @@ "MX300-HS" :> <<4, 4>>) ]
 @@ "PHOTON-III" :> [ hms |-> 100000, vms |-> 70000, pxs |-> 50, hgp |-> 0, vgp |-> 0, cbh |-> 0,
                      size |-> ("7" :> <<1, 1>> @@ "14" :> <<1, 2>> @@ "28" :> <<2, 2>>) ]
 @@ "PHOTON-II" :> [ hms |-> 100000, vms |-> 70000, pxs |-> 50, hgp |-> 0, vgp |-> 0, cbh |-> 0,
                     size |-> ("7" :> <<1, 1>> @@ "14" :> <<1, 2>>) ] )

\* get_det_library of detgeo_pyqt6_dd.py
DetLibDD ==
  ( "PILATUS3" :> [ hms |-> 83800, vms |-> 33500, pxs |-> 172, hgp |-> 7, vgp |-> 17, cbh |-> 0,
                    size |-> ("300K" :> <<1, 3>> @@ "1M" :> <<2, 5>> @@ "2M" :> <<3, 8>> @@ "6M" :> <<5, 12>>) ]
 @@ "PILATUS4" :> [ hms |-> 75000, vms |-> 39000, pxs |-> 150, hgp |-> 8, vgp |-> 12, cbh |-> 0,
                    size |-> ("260K" :> <<1, 2>> @@ "800K" :> <<2, 3>> @@ "1M" :> <<2, 4>>
                              @@ "1.5M" :> <<3, 4>> @@ "2M" :> <<3, 6>> @@ "3M" :> <<4, 6>>) ]
 @@ "EIGER2" :> [ hms |-> 77100, vms |-> 38400, pxs |-> 75, hgp |-> 38, vgp |-> 12, cbh |-> 0,
                  size |-> ("1M" :> <<1, 2>> @@ "4M" :> <<2, 4>> @@ "9M" :> <<3, 6>> @@ "16M" :> <<4, 8>>) ]
 @@ "MPCCD" :> [ hms |-> 51200, vms |-> 25600, pxs |-> 50, hgp |-> 18, vgp |-> 27, cbh |-> 3000,
                 size |-> ("4M" :> <<2, 4>>) ] )

DetLib(v) == IF v = "main" THEN DetLibMain ELSE DetLibDD

\* get_det_library: the entries of detectors.json replace or extend the
\* built-in ones
get_det_library(v, json) == json @@ DetLib(v)

\* str.upper() on the detector names the model uses
Upper(s) ==
  CASE s = "eiger2" -> "EIGER2"
    [] s = "Eiger2" -> "EIGER2"
    [] s = "Pilatus3" -> "PILATUS3"
    [] s = "mpccd" -> "MPCCD"
    [] s = "4m" -> "4M"
    [] s = "1m" -> "1M"
    [] s = "300k" -> "300K"
    [] OTHER -> s

\* the detector before get_specs_det has returned one
NoDet ==
  [ hms |-> 0, vms |-> 0, pxs |-> 0, hgp |-> 0, vgp |-> 0, cbh |-> 0,
    hmn |-> 0, vmn |-> 0, name |-> << >> ]

\* get_specs_det: ok = FALSE stands for raise SystemExit
get_specs_det(detectors, det_type, det_size) ==
  LET t == Upper(det_type)
      z == Upper(det_size)
  IN  IF t \notin DOMAIN detectors THEN [ok |-> FALSE, det |-> NoDet]
      ELSE IF z \notin DOMAIN detectors[t].size THEN [ok |-> FALSE, det |-> NoDet]
      ELSE [ ok  |-> TRUE,
             det |-> [ hms |-> detectors[t].hms, vms |-> detectors[t].vms,
                       pxs |-> detectors[t].pxs, hgp |-> detectors[t].hgp,
                       vgp |-> detectors[t].vgp, cbh |-> detectors[t].cbh,
                       hmn |-> detectors[t].size[z][1], vmn |-> detectors[t].size[z][2],
                       name |-> <<t, z>> ] ]

\* a half width that counts the gaps between the modules only
XDimBetween(det) ==
  (det.hms * det.hmn + det.pxs * det.hgp * (det.hmn - 1) + det.cbh) \div 2

\* a vertical half extent that counts the columns instead of the rows
YDimByColumns(det) == (det.vms * det.hmn + det.pxs * det.vgp * det.hmn + det.cbh) \div 2

\* plo.xdim, plo.ydim of init_screen
XDim(det) == (det.hms * det.hmn + det.pxs * det.hgp * det.hmn + det.cbh) \div 2
YDim(det) == (det.vms * det.vmn + det.pxs * det.vgp * det.vmn + det.cbh) \div 2

\* a & b of two naturals
RECURSIVE BitAndNat(_, _)
BitAndNat(a, b) ==
  IF a = 0 \/ b = 0 THEN 0
  ELSE 2 * BitAndNat(a \div 2, b \div 2) + (IF a % 2 = 1 /\ b % 2 = 1 THEN 1 ELSE 0)

\* Python's j & n for n >= 0 and any integer j (two's complement)
BitAnd(j, n) == BitAndNat(j % 65536, n)

\* a last index that mirrors the first one
RangeLastMirrored(n) == n \div 2

\* range(-n//2 + n%2, n - n//2): its first and last index
RangeFirst(n) == ((-n) \div 2) + (n % 2)
RangeLast(n) == n - (n \div 2) - 1
ModuleRange(n) == RangeFirst(n) .. RangeLast(n)

\* an origin_x that centres a module on the beam whatever the count
OriginXCentred(det, i, j) ==
    i * (det.hms + det.hgp * det.pxs)
  - ((det.hms + det.hgp * det.pxs) \div 2)
  + ((det.hgp * det.pxs) \div 2)
  + (det.cbh \div 2) * (((2 * BitAnd(j, det.vmn)) \div det.vmn) - 1)

\* an origin_y whose panel groups move towards the beam
OriginYInward(det, i, j) ==
    j * (det.vms + det.vgp * det.pxs)
  - ((det.vms + det.vgp * det.pxs) \div 2) * (det.vmn % 2)
  + ((det.vgp * det.pxs) \div 2)
  - (det.cbh \div 2) * (1 - ((2 * BitAnd(i, det.hmn)) \div det.hmn))

\* origin_x and origin_y of module (i, j)
OriginX(det, i, j) ==
    i * (det.hms + det.hgp * det.pxs)
  - ((det.hms + det.hgp * det.pxs) \div 2) * (det.hmn % 2)
  + ((det.hgp * det.pxs) \div 2)
  + (det.cbh \div 2) * (((2 * BitAnd(j, det.vmn)) \div det.vmn) - 1)
OriginY(det, i, j) ==
    j * (det.vms + det.vgp * det.pxs)
  - ((det.vms + det.vgp * det.pxs) \div 2) * (det.vmn % 2)
  + ((det.vgp * det.pxs) \div 2)
  + (det.cbh \div 2) * (1 - ((2 * BitAnd(i, det.hmn)) \div det.hmn))

\* the rectangles build_detector adds, one loop iteration after the other
RECURSIVE ModuleRow(_, _, _, _)
ModuleRow(det, i, j, jmax) ==
  IF j > jmax THEN << >>
  ELSE << [x |-> OriginX(det, i, j), y |-> OriginY(det, i, j), w |-> det.hms, h |-> det.vms] >>
       \o ModuleRow(det, i, j + 1, jmax)

RECURSIVE ModuleRows(_, _, _)
ModuleRows(det, i, imax) ==
  IF i > imax THEN << >>
  ELSE ModuleRow(det, i, RangeFirst(det.vmn), RangeLast(det.vmn))
       \o ModuleRows(det, i + 1, imax)

build_detector(det) ==
  ModuleRows(det, RangeFirst(det.hmn), RangeLast(det.hmn))


(***************************************************************************)
(*      The reference series: get_cif_reference and get_reference          *)
(***************************************************************************)
\* a reflection of xtl.Scatter.powder is [hkl, d, inten]: d in 1/10000
\* Angstrom, inten a whole number

SeqSum(s) ==
  LET F[i \in 0..Len(s)] == IF i = 0 THEN 0 ELSE F[i - 1] + s[i].inten
  IN  F[Len(s)]

MaxInten(s) == SetMax({ s[i].inten : i \in DOMAIN s })

\* reflections[mask]: the entries that satisfy Keep, in their order
RECURSIVE Filter(_, _, _, _)
Filter(s, i, thr, strict) ==
  IF i > Len(s) THEN << >>
  ELSE (IF (IF strict THEN s[i].inten * thr.den > thr.num ELSE s[i].inten * thr.den >= thr.num)
          THEN << s[i] >> ELSE << >>)
       \o Filter(s, i + 1, thr, strict)

\* the threshold of the variant, as the fraction num / den:
\* max() * cont_ref_min_int (a percentage in the model), or np.mean()
Threshold(v, refl, min_int) ==
  IF v = "main" THEN [num |-> MaxInten(refl) * min_int, den |-> 100]
  ELSE [num |-> SeqSum(refl), den |-> Len(refl)]

\* used = reflections[reflections[:,4] > threshold]
Used(v, refl, min_int) == Filter(refl, 1, Threshold(v, refl, min_int), TRUE)

\* insert e into the ascending sequence s behind the entries not above it
RECURSIVE InsertAsc(_, _)
InsertAsc(s, e) ==
  IF s = << >> THEN << e >>
  ELSE IF s[Len(s)].inten <= e.inten THEN Append(s, e)
  ELSE Append(InsertAsc(SubSeq(s, 1, Len(s) - 1), e), s[Len(s)])

\* used[used[:,4].argsort()]: ascending by intensity (a stable sort, as
\* numpy's is for the short arrays of the model)
RECURSIVE SortAsc(_, _)
SortAsc(s, n) == IF n = 0 THEN << >> ELSE InsertAsc(SortAsc(s, n - 1), s[n])

\* the order left as it is
Unreversed(s) == s

\* [::-1]
Reverse(s) == [i \in 1..Len(s) |-> s[Len(s) + 1 - i]]

\* ordered = used[used[:, 4].argsort()][::-1][:cont_ref_num]
Ordered(used, num) ==
  LET r == Reverse(SortAsc(used, Len(used)))
  IN  SubSeq(r, 1, Min(num, Len(r)))

\* pyFAI's calibrant.get_calibrant(name).get_dSpacing(), in 1/10000 Angstrom
Calibrant ==
  ( "LaB6" :> << 41569, 29394, 24000, 20785, 18590 >>
 @@ "Au"   :> << 23548, 20393, 14420, 12297, 11774 >> )

\* geo.ref_library = calibrant.names()
ref_library == DOMAIN Calibrant

\* cont_ref_hkl = None
NoHkl == [some |-> FALSE, v |-> << >>]

\* a get_reference that takes the last num d-spacings of a calibrant
get_reference_last(v, reference, num, custom, custom_hkl) ==
  IF reference \in ref_library
    THEN [ dsp |-> SubSeq(Calibrant[reference],
                          Max(1, Len(Calibrant[reference]) - num + 1),
                          Len(Calibrant[reference])),
           hkl |-> NoHkl ]
  ELSE IF reference \in DOMAIN custom
    THEN [ dsp |-> custom[reference], hkl |-> custom_hkl[reference] ]
  ELSE [ dsp |-> [i \in 1..num |-> IF v = "main" THEN 0 ELSE -10000], hkl |-> NoHkl ]

\* get_reference: the d-spacings and hkl of geo.reference
get_reference(v, reference, num, custom, custom_hkl) ==
  IF reference \in ref_library
    THEN [ dsp |-> SubSeq(Calibrant[reference], 1, Min(num, Len(Calibrant[reference]))),
           hkl |-> NoHkl ]
  ELSE IF reference \in DOMAIN custom
    THEN [ dsp |-> custom[reference], hkl |-> custom_hkl[reference] ]
  ELSE [ dsp |-> [i \in 1..num |-> IF v = "main" THEN 0 ELSE -10000], hkl |-> NoHkl ]

(***************************************************************************)
(*                  draw_contours and draw_reference                       *)
(***************************************************************************)
\* model bounds: plo.cont_tth_num, plo.cont_ref_num, plo.cont_steps
cont_tth_num == 4
cont_ref_num == 2
cont_steps == 4
\* plo.cont_tth_min, plo.cont_tth_max (degrees)
cont_tth_min == 5
cont_tth_max == 150

\* plo.cont_geom_num[n - 1], in cdeg
Ttd(n) == Linspace(cont_tth_min * 100, cont_tth_max * 100, cont_tth_num, n - 1)

\* omega = -np.deg2rad(geo.tilt + geo.rota), in cdeg
Omega(g) == -(g.tilt + g.rota) * 100

\* sin(theta) in the place of sin(theta/2)
StlWhole(theta, ener) == (Sin(theta) * ener * 1000) \div 12398

\* stl = np.sin(theta/2) / (12.398/geo.ener), a ratio
Stl(theta, ener) == (Sin(theta \div 2) * ener * 1000) \div 12398

\* dsp = 1/(2*stl), to the nearest 1/10000 Angstrom
Dsp(theta, ener) ==
  IF Stl(theta, ener) = 0 THEN Sat
  ELSE (SC * SC + Stl(theta, ener)) \div (2 * Stl(theta, ener))

\* the value of _units[unit], in hundredths (the label shows 2 decimals)
UnitValue(unit, ttd, theta, ener) ==
  LET Value(stl) ==
        CASE unit = 0 -> ttd
          [] unit = 1 -> IF stl = 0 THEN Sat ELSE ((SC * SC) \div (2 * stl) + 50) \div 100
          [] unit = 2 -> (MulS(stl, 125664) + 50) \div 100
          [] OTHER    -> (stl + 50) \div 100
  IN  Value(Stl(theta, ener))

\* a setVisible that leaves the item as it is
setVisibleIgnored(item, b) == item

\* item.setVisible(b)
setVisible(item, b) == [item EXCEPT !.vis = b]

\* the name of the first entry, whatever the slot
hkl_first(hkl, n) == IF hkl.some /\ Len(hkl.v) > 0 THEN hkl.v[1] ELSE << >>

\* the name a reference curve gets: cont_ref_hkl[_n] if hkl are available
\* (a non-empty list), else it keeps None
hkl_name(hkl, n) == IF hkl.some /\ Len(hkl.v) > 0 THEN hkl.v[n] ELSE << >>

\* one slot more than the sweep and the reference series have
SpareContours ==
  [ conic  |-> [n \in 1..(cont_tth_num + 1) |-> [vis |-> TRUE, x |-> << >>, y |-> << >>]],
    labels |-> [n \in 1..(cont_tth_num + 1) |-> [vis |-> TRUE, pos |-> <<0, 0>>, val |-> 0]],
    ref    |-> [n \in 1..(cont_ref_num + 1) |->
                 [vis |-> TRUE, x |-> << >>, y |-> << >>, name |-> << >>]] ]

\* the slots init_screen creates: Qt items are visible when created and
\* hold no data
NewContours ==
  [ conic  |-> [n \in 1..cont_tth_num |-> [vis |-> TRUE, x |-> << >>, y |-> << >>]],
    labels |-> [n \in 1..cont_tth_num |-> [vis |-> TRUE, pos |-> <<0, 0>>, val |-> 0]],
    ref    |-> [n \in 1..cont_ref_num |-> [vis |-> TRUE, x |-> << >>, y |-> << >>, name |-> << >>]] ]

\* draw_contours: the new conic and label slots, and the exception that
\* stopped the loop ("" if none): ValueError in the variant's calc_conic,
\* KeyError of _units[geo.unit]
draw_contours(v, g, xdim, ydim, cont) ==
  LET Drawn(R) ==
        LET shown(n) == IF v = "main" THEN R[n].vis /\ Len(R[n].x) > 0 ELSE R[n].vis
            keyerr(n) == shown(n) /\ g.unit \notin 0..3
            hidden(old) == setVisible(old, FALSE)
            pos(n) == << g.xoff * 1000, R[n].label >>
            conic(n, stop) ==
              IF n > cont_tth_num \/ n > stop \/ R[n].err THEN cont.conic[n]
              ELSE IF shown(n) THEN [vis |-> TRUE, x |-> R[n].x, y |-> R[n].y]
              ELSE hidden(cont.conic[n])
            label(n, stop) ==
              IF n > cont_tth_num \/ n > stop \/ R[n].err THEN cont.labels[n]
              ELSE IF ~shown(n) THEN hidden(cont.labels[n])
              ELSE IF keyerr(n)
                THEN [ (IF v = "main" THEN hidden(cont.labels[n]) ELSE cont.labels[n])
                       EXCEPT !.pos = pos(n) ]
              ELSE [ vis |-> TRUE, pos |-> pos(n),
                     val |-> UnitValue(g.unit, Ttd(n), Ttd(n), g.ener) ]
            Until(raises, stop) ==
              [ conic  |-> Array([n \in DOMAIN cont.conic |-> conic(n, stop)]),
                labels |-> Array([n \in DOMAIN cont.labels |-> label(n, stop)]),
                raised |-> IF raises = {} THEN ""
                           ELSE IF R[stop].err THEN "ValueError" ELSE "KeyError" ]
            Raising(raises) ==
              Until(raises, IF raises = {} THEN cont_tth_num + 1 ELSE SetMin(raises))
        IN  Raising({ n \in 1..cont_tth_num : R[n].err \/ keyerr(n) })
  IN  Drawn(Array([n \in 1..cont_tth_num |->
                     CalcConic(v, g, xdim, ydim, Omega(g), Ttd(n), cont_steps)]))

\* a loop body that also hides the item of the next slot
draw_contour_neighbour(v, g, xdim, ydim, cont, n) ==
  LET Body(dc) ==
        [ conic  |-> [k \in DOMAIN cont.conic |->
                        IF k = n THEN dc.conic[k]
                        ELSE IF k = n + 1 THEN setVisible(cont.conic[k], FALSE)
                        ELSE cont.conic[k]],
          labels |-> [k \in DOMAIN cont.labels |->
                        IF k = n THEN dc.labels[k] ELSE cont.labels[k]],
          raised |-> "" ]
  IN  Body(draw_contours(v, g, xdim, ydim, cont))

\* one iteration of the loop of draw_contours, for index n: the conic and
\* label slots after it and the exception it raised ("" if none)
draw_contour(v, g, xdim, ydim, cont, n) ==
  LET Body(r) ==
        LET shown  == IF v = "main" THEN r.vis /\ Len(r.x) > 0 ELSE r.vis
            keyerr == shown /\ g.unit \notin 0..3
            pos    == << g.xoff * 1000, r.label >>
        IN  [ conic  |-> [cont.conic EXCEPT ![n] =
                            IF r.err THEN @
                            ELSE IF shown THEN [vis |-> TRUE, x |-> r.x, y |-> r.y]
                            ELSE setVisible(@, FALSE)],
              labels |-> [cont.labels EXCEPT ![n] =
                            IF r.err THEN @
                            ELSE IF ~shown THEN setVisible(@, FALSE)
                            ELSE IF keyerr
                              THEN [ (IF v = "main" THEN setVisible(cont.labels[n], FALSE)
                                      ELSE cont.labels[n])
                                     EXCEPT !.pos = pos ]
                            ELSE [ vis |-> TRUE, pos |-> pos,
                                   val |-> UnitValue(g.unit, Ttd(n), Ttd(n), g.ener) ]],
              raised |-> IF r.err THEN "ValueError"
                         ELSE IF keyerr THEN "KeyError" ELSE "" ]
  IN  Body(CalcConic(v, g, xdim, ydim, Omega(g), Ttd(n), cont_steps))

\* lambda_d = (12.398/geo.ener) / (2*_d), a ratio; d in 1/10000 Angstrom
LambdaD(ener, d) == Sgn(d) * (1239800000 \div (2 * ener * Abs(d)))

\* lambda_d > 1.0
Unreachable(ener, d) == d > 0 /\ 123980 > 2 * ener * d

\* theta = 2 * np.arcsin(lambda_d), in cdeg
RefTheta(ener, d) ==
  LET Twice(a) == IF a = NaN THEN NaN ELSE 2 * a
  IN  Twice(ArcSin(LambdaD(ener, d)))

\* draw_reference of detgeo_pyqt6.py: the new reference slots, and the
\* exception that stopped the loop ("" if none): IndexError of
\* cont_ref_hkl[_n]
draw_reference_main(g, xdim, ydim, dsp, hkl, ref) ==
  LET drawn(n) ==
        /\ n <= Len(dsp)
        /\ dsp[n] > 0
        /\ ~Unreachable(g.ener, dsp[n])
      truthy == hkl.some /\ Len(hkl.v) > 0
      Drawn(R) ==
        LET shown(n) == drawn(n) /\ R[n].vis
            slot(n, stop) ==
              IF n > cont_ref_num \/ n > stop THEN ref[n]
              ELSE IF ~shown(n) THEN setVisible(ref[n], FALSE)
              ELSE [ vis |-> TRUE, x |-> R[n].x, y |-> R[n].y,
                     name |-> IF n = stop THEN ref[n].name ELSE hkl_name(hkl, n) ]
            Until(raises, stop) ==
              [ ref |-> Array([n \in DOMAIN ref |-> slot(n, stop)]),
                raised |-> IF raises = {} THEN "" ELSE "IndexError" ]
            Raising(raises) ==
              Until(raises, IF raises = {} THEN cont_ref_num + 1 ELSE SetMin(raises))
        IN  Raising({ n \in 1..cont_ref_num : shown(n) /\ truthy /\ n > Len(hkl.v) })
  IN  Drawn(Array([n \in 1..cont_ref_num |->
                     IF drawn(n)
                       THEN CalcConicMain(g, xdim, ydim, Omega(g),
                                          RefTheta(g.ener, dsp[n]), cont_steps)
                       ELSE Invisible("none")]))

\* draw_reference of detgeo_pyqt6_dd.py.  calc_conic returns a pair, so
\* "if not conic" is never taken and setData receives the pair
draw_reference_dd(g, xdim, ydim, dsp, hkl, ref) ==
  LET inrange(n) == n <= Len(dsp)
      skipped(n) == inrange(n) /\ Unreachable(g.ener, dsp[n])
      truthy == hkl.some /\ Len(hkl.v) > 0
      Drawn(theta, R) ==
        LET forward(n) == theta[n] # NaN
            slot(n, stop) ==
              IF n > cont_ref_num \/ n > stop \/ skipped(n) THEN ref[n]
              ELSE IF ~forward(n) THEN setVisible(ref[n], FALSE)
              ELSE IF R[n].err THEN setVisible(ref[n], TRUE)
              ELSE [ vis |-> TRUE, x |-> R[n].x, y |-> R[n].y,
                     name |-> IF n = stop THEN ref[n].name ELSE hkl_name(hkl, n) ]
            Until(raises, stop) ==
              [ ref |-> Array([n \in DOMAIN ref |-> slot(n, stop)]),
                raised |-> IF raises = {} THEN ""
                           ELSE IF R[stop].err THEN "ValueError" ELSE "IndexError" ]
            Raising(raises) ==
              Until(raises, IF raises = {} THEN cont_ref_num + 1 ELSE SetMin(raises))
        IN  Raising({ n \in 1..cont_ref_num :
                        forward(n) /\ (R[n].err \/ (truthy /\ n > Len(hkl.v))) })
      Conics(theta) ==
        Drawn(theta, Array([n \in 1..cont_ref_num |->
                              IF theta[n] # NaN
                                THEN CalcConicDD(g, xdim, ydim, Omega(g), theta[n], cont_steps)
                                ELSE Invisible("none")]))
      Forward(th) == IF th # NaN /\ th < 9000 + Abs(Omega(g)) THEN th ELSE NaN
  IN  Conics(Array([n \in 1..cont_ref_num |->
                      IF inrange(n) /\ ~skipped(n)
                        THEN Forward(RefTheta(g.ener, dsp[n]))
                        ELSE NaN]))

draw_reference(v, g, xdim, ydim, dsp, hkl, ref) ==
  IF v = "main" THEN draw_reference_main(g, xdim, ydim, dsp, hkl, ref)
  ELSE draw_reference_dd(g, xdim, ydim, dsp, hkl, ref)

(***************************************************************************)
(*                     The window and its handlers                         *)
(***************************************************************************)
VARIABLES
  variant,    \* "main": detgeo_pyqt6.py, "dd": detgeo_pyqt6_dd.py
  raised,     \* the exception that ended the run, "" while it is running
  detectors,  \* self.detectors
  geo,        \* self.geo
  det,        \* self.det
  plo,        \* self.plo: xdim, ydim, cont_ref_dsp, cont_ref_hkl, cont_ref_min_int
  contours,   \* self.plo.contours
  modules,    \* the rectangles build_detector added to the plot
  call        \* the call of a solver or builder and what it returned

vars == << variant, raised, detectors, geo, det, plo, contours, modules, call >>

\* the window's slots still run
alive == raised = ""

\* the window as one record
Window ==
  [ raised |-> raised, geo |-> geo, det |-> det, plo |-> plo,
    contours |-> contours, modules |-> modules ]

Becomes(s) ==
  /\ raised' = s.raised
  /\ geo' = s.geo
  /\ det' = s.det
  /\ plo' = s.plo
  /\ contours' = s.contours
  /\ modules' = s.modules

\* a get_reference that stores the d-spacings and leaves the hkl list
set_reference_dsp(v, s) ==
  LET Set(r) == [s EXCEPT !.plo.cont_ref_dsp = r.dsp]
  IN  Set(get_reference(v, s.geo.reference, cont_ref_num,
                        s.geo.ref_custom, s.geo.ref_custom_hkl))

\* get_reference() as update_screen and change_reference call it
set_reference(v, s) ==
  LET Set(r) == [s EXCEPT !.plo.cont_ref_dsp = r.dsp, !.plo.cont_ref_hkl = r.hkl]
  IN  Set(get_reference(v, s.geo.reference, cont_ref_num,
                        s.geo.ref_custom, s.geo.ref_custom_hkl))

\* draw_reference() on the window
show_reference(v, s) ==
  LET Shown(dr) == [s EXCEPT !.contours.ref = dr.ref, !.raised = dr.raised]
  IN  Shown(draw_reference(v, s.geo, s.plo.xdim, s.plo.ydim,
                           s.plo.cont_ref_dsp, s.plo.cont_ref_hkl, s.contours.ref))

\* draw_contours() on the window
show_contours(v, s) ==
  LET Shown(dc) == [s EXCEPT !.contours.conic = dc.conic, !.contours.labels = dc.labels,
                             !.raised = dc.raised]
  IN  Shown(draw_contours(v, s.geo, s.plo.xdim, s.plo.ydim, s.contours))

\* the names update_screen knows
SliderNames == { "dist", "rota", "tilt", "yoff", "xoff", "ener" }

\* an update_screen that leaves the reference contours as they are
reference_kept(v, s) == s

\* the reference half of update_screen
update_reference(v, s) ==
  IF s.raised # "" \/ s.geo.reference = "None" THEN s
  ELSE show_reference(v, set_reference(v, s))

\* an update_screen that projects the half-extent along the rotation
update_screen_projecting(v, s, name, val) ==
  [ update_reference(v,
      show_contours(v,
        [s EXCEPT !.geo = IF name \in SliderNames THEN [@ EXCEPT ![name] = val] ELSE @]))
    EXCEPT !.plo.xdim = MulS(@, Cos(s.geo.rota * 100)) ]

\* an update_screen that draws first and stores the value afterwards
update_screen_late(v, s, name, val) ==
  [ update_reference(v, show_contours(v, s))
    EXCEPT !.geo = IF name \in SliderNames THEN [@ EXCEPT ![name] = val] ELSE @ ]

\* an update_screen whose xoff slider sets the vertical offset
update_screen_crossed(v, s, name, val) ==
  update_reference(v,
    show_contours(v,
      [s EXCEPT !.geo = IF name = "xoff" THEN [@ EXCEPT !.yoff = val]
                        ELSE IF name \in SliderNames THEN [@ EXCEPT ![name] = val]
                        ELSE @]))

\* update_screen(val) sent by the slider called name; name "" is val = None
update_screen(v, s, name, val) ==
  update_reference(v,
    show_contours(v,
      [s EXCEPT !.geo = IF name \in SliderNames THEN [@ EXCEPT ![name] = val] ELSE @]))

\* init_screen()
init_screen(v, s) ==
  update_screen(v,
    [s EXCEPT !.plo.xdim = XDim(s.det), !.plo.ydim = YDim(s.det),
              !.contours = NewContours,
              !.modules = build_detector(s.det)],
    "", 0)

\* a change_detector that takes whatever get_specs_det left behind
change_detector_unchecked(v, s, dets, det_name, det_size) ==
  init_screen(v, [s EXCEPT !.det = get_specs_det(dets, det_name, det_size).det])

\* change_detector(det_name, det_size)
change_detector(v, s, dets, det_name, det_size) ==
  IF get_specs_det(dets, det_name, det_size).ok
    THEN init_screen(v, [s EXCEPT !.det = get_specs_det(dets, det_name, det_size).det])
    ELSE [s EXCEPT !.raised = "SystemExit"]

\* change_units(unit_index)
change_units(v, s, unit_index) ==
  show_contours(v, [s EXCEPT !.geo.unit = unit_index])

\* a change_reference that leaves the drawn curves as they are
change_reference_undrawn(v, s, ref_name) ==
  set_reference(v, [s EXCEPT !.geo.reference = ref_name])

\* change_reference(ref_name)
change_reference(v, s, ref_name) ==
  show_reference(v, set_reference(v, [s EXCEPT !.geo.reference = ref_name]))

\* get_cif_reference(fpath): refl is what xtl.Scatter.powder returns for the
\* file, fname its basename
get_cif_reference(v, s, fname, refl) ==
  IF v = "main" /\ refl = << >> THEN [s EXCEPT !.raised = "ValueError"]
  ELSE
    LET Stored(dsp, hkl) ==
          [s EXCEPT !.plo.cont_ref_dsp = dsp, !.plo.cont_ref_hkl = hkl,
                    !.geo.reference = fname,
                    !.geo.ref_custom = (fname :> dsp) @@ @,
                    !.geo.ref_custom_hkl = (fname :> hkl) @@ @]
        Columns(ordered) ==
          Stored([i \in 1..Len(ordered) |-> ordered[i].d],
                 [some |-> TRUE, v |-> [i \in 1..Len(ordered) |-> ordered[i].hkl]])
    IN  show_reference(v,
          Columns(Ordered(Used(v, refl, s.plo.cont_ref_min_int), cont_ref_num)))

(***************************************************************************)
(*                               Startup                                   *)
(***************************************************************************)
\* get_specs_lmt: the slider ranges, in the order SliderWidget adds them
Limits(v) ==
  << [name |-> "ener", lo |-> 5, hi |-> 100],
     [name |-> "dist", lo |-> 40, hi |-> 1000],
     [name |-> "yoff", lo |-> IF v = "main" THEN -250 ELSE 0, hi |-> 250],
     [name |-> "xoff", lo |-> -150, hi |-> 150],
     [name |-> "tilt", lo |-> IF v = "main" THEN -25 ELSE -30,
                       hi |-> IF v = "main" THEN 25 ELSE 30],
     [name |-> "rota", lo |-> -60, hi |-> 60] >>

\* QSlider keeps its value inside its range
Bound(x, lo, hi) == IF x < lo THEN lo ELSE IF x > hi THEN hi ELSE x

\* add_slider: setValue(999) leaves a fresh slider (range 0..99) at 99 before
\* valueChanged is connected; setRange and setValue(int(lval)) then emit
\* valueChanged whenever they change the value
SliderStart(l, lval) ==
  LET v1 == Bound(99, l.lo, l.hi)
      v2 == Bound(lval, l.lo, l.hi)
  IN  (IF v1 # 99 THEN << <<l.name, v1>> >> ELSE << >>)
      \o (IF v2 # v1 THEN << <<l.name, v2>> >> ELSE << >>)

\* the valueChanged signals of SliderWidget.__init__
RECURSIVE SliderStartEvents(_, _, _)
SliderStartEvents(v, g, i) ==
  IF i > Len(Limits(v)) THEN << >>
  ELSE SliderStart(Limits(v)[i], g[Limits(v)[i].name]) \o SliderStartEvents(v, g, i + 1)

\* the slots run one after the other until one of them ends the run
RECURSIVE Replay(_, _, _, _)
Replay(v, s, ev, i) ==
  IF i > Len(ev) \/ s.raised # "" THEN s
  ELSE Replay(v, update_screen(v, s, ev[i][1], ev[i][2]), ev, i + 1)

\* MainWindow.__init__ with the configuration cfg
Startup(v, dets, cfg) ==
  LET r == get_specs_det(dets, cfg.det_type, cfg.det_size)
      g == [ ener |-> cfg.ener, dist |-> cfg.dist, yoff |-> cfg.yoff,
             xoff |-> cfg.xoff, rota |-> cfg.rota, tilt |-> cfg.tilt,
             unit |-> cfg.unit, reference |-> cfg.reference,
             ref_custom |-> << >>, ref_custom_hkl |-> << >> ]
      blank == [ raised |-> "SystemExit", geo |-> g, det |-> NoDet,
                 plo |-> [ xdim |-> 0, ydim |-> 0, cont_ref_dsp |-> << >>,
                           cont_ref_hkl |-> NoHkl,
                           cont_ref_min_int |-> cfg.cont_ref_min_int ],
                 contours |-> [conic |-> << >>, labels |-> << >>, ref |-> << >>],
                 modules |-> << >> ]
  IN  IF ~r.ok THEN blank
      ELSE IF g.unit >= 4 THEN [blank EXCEPT !.det = r.det]
      ELSE Replay(v, init_screen(v, [blank EXCEPT !.raised = "", !.det = r.det]),
                  SliderStartEvents(v, g, 1), 1)

\* get_specs_geo and get_specs_plo: the shipped configuration
DefaultConfig ==
  [ det_type |-> "EIGER2", det_size |-> "4M", ener |-> 21, dist |-> 75,
    yoff |-> 0, xoff |-> 0, rota |-> 25, tilt |-> 0, unit |-> 1,
    reference |-> "None", cont_ref_min_int |-> 1 ]

(***************************************************************************)
(*                        The window as a machine                          *)
(***************************************************************************)
\* the configurations the window is started with: the shipped one, one
\* with a unit and one with a detector size that do not exist
Configs ==
  { DefaultConfig,
    [DefaultConfig EXCEPT !.unit = 4],
    [DefaultConfig EXCEPT !.det_size = "2M"] }

\* the values the sliders are moved to
SliderValues ==
  [ ener |-> {5, 21}, dist |-> {75}, yoff |-> {0}, xoff |-> {0},
    tilt |-> {0}, rota |-> {25} ]

\* the detector requests: menu entries and two the library does not hold
DetRequests ==
  { <<"EIGER2", "4M">>, <<"MPCCD", "4M">>, <<"EIGER2", "2M">>, <<"XPAD", "1M">> }

\* the reflections of the cif files dropped on the window
CifFiles ==
  ( "a.cif" :> { << [hkl |-> <<1, 0, 0>>, d |-> 30000, inten |-> 200],
                  [hkl |-> <<1, 1, 0>>, d |-> 11000, inten |-> 400],
                  [hkl |-> <<1, 1, 1>>, d |-> 25000, inten |-> 4],
                  [hkl |-> <<2, 0, 0>>, d |-> 15000, inten |-> 40],
                  [hkl |-> <<2, 1, 0>>, d |-> 13416, inten |-> 100] >> } )

\* no call has been recorded
NoCall == [op |-> "none"]

\* the window after MainWindow.__init__ with one of the configurations cfgs
Started(cfgs, json) ==
  /\ variant \in {"main", "dd"}
  /\ detectors = get_det_library(variant, json)
  /\ call = NoCall
  /\ \E cfg \in cfgs : \E s \in { Startup(variant, detectors, cfg) } :
       /\ raised = s.raised
       /\ geo = s.geo
       /\ det = s.det
       /\ plo = s.plo
       /\ contours = s.contours
       /\ modules = s.modules

Init == Started(Configs, << >>)

\* a slider is moved to one of the values vals
SliderEvent(vals) ==
  /\ alive
  /\ \E name \in SliderNames : \E val \in vals[name] :
       \E s \in { update_screen(variant, Window, name, val) } : Becomes(s)
  /\ UNCHANGED << variant, detectors, call >>

\* an entry of the Units menu is picked
ChangeUnits ==
  /\ alive
  /\ \E unit_index \in 0..3 :
       \E s \in { change_units(variant, Window, unit_index) } : Becomes(s)
  /\ UNCHANGED << variant, detectors, call >>

\* change_detector is called with one of the requests reqs
ChangeDetector(reqs) ==
  /\ alive
  /\ \E r \in reqs :
       \E s \in { change_detector(variant, Window, detectors, r[1], r[2]) } : Becomes(s)
  /\ UNCHANGED << variant, detectors, call >>

\* an entry of the Reference menu is picked
ChangeReference ==
  /\ alive
  /\ \E ref_name \in {"None", "LaB6"} \cup DOMAIN geo.ref_custom :
       \E s \in { change_reference(variant, Window, ref_name) } : Becomes(s)
  /\ UNCHANGED << variant, detectors, call >>

\* a cif file is dropped on the window: files maps the name of each file
\* to the sets of reflections it may hold
DropCif(files) ==
  /\ alive
  /\ \E fname \in DOMAIN files : \E refl \in files[fname] :
       /\ \E s \in { get_cif_reference(variant, Window, fname, refl) } : Becomes(s)
       /\ call' = [op |-> "get_cif_reference", fpath |-> fname, reflections |-> refl]
  /\ UNCHANGED << variant, detectors >>

Next ==
  \/ SliderEvent(SliderValues)
  \/ ChangeUnits
  \/ ChangeDetector(DetRequests)
  \/ ChangeReference
  \/ DropCif(CifFiles)

Spec == Init /\ [][Next]_vars

(***************************************************************************)
(*        The contours under slider, unit and detector changes             *)
(***************************************************************************)
\* the values the sliders are moved to when the geometry is explored
GeometryValues ==
  [ ener |-> {21}, dist |-> {75, 150}, yoff |-> {0}, xoff |-> {0, 50},
    tilt |-> {0}, rota |-> {0, 25} ]

NextDraw ==
  \/ SliderEvent(GeometryValues)
  \/ ChangeUnits
  \/ ChangeDetector(DetRequests)

SpecDraw == Init /\ [][NextDraw]_vars

(***************************************************************************)
(*                  The detectors and their footprints                     *)
(***************************************************************************)
\* the module counts of the detectors a detectors.json adds
TileSizes ==
  (  "1X1" :> <<1, 1>> @@ "1X2" :> <<1, 2>> @@ "1X3" :> <<1, 3>> @@ "1X4" :> <<1, 4>>
     @@ "2X1" :> <<2, 1>> @@ "2X2" :> <<2, 2>> @@ "2X3" :> <<2, 3>> @@ "2X4" :> <<2, 4>>
     @@ "3X1" :> <<3, 1>> @@ "3X2" :> <<3, 2>> @@ "3X3" :> <<3, 3>> @@ "3X4" :> <<3, 4>>
     @@ "4X1" :> <<4, 1>> @@ "4X2" :> <<4, 2>> @@ "4X3" :> <<4, 3>> @@ "4X4" :> <<4, 4>> )

\* a detectors.json with tiled detectors: with gaps, without gaps, and with
\* gaps and a central hole
TiledDetectors ==
  ( "TILED" :> [ hms |-> 40000, vms |-> 30000, pxs |-> 100, hgp |-> 10, vgp |-> 20,
                 cbh |-> 0, size |-> TileSizes ]
 @@ "GAPLESS" :> [ hms |-> 40000, vms |-> 30000, pxs |-> 100, hgp |-> 0, vgp |-> 0,
                   cbh |-> 0, size |-> TileSizes ]
 @@ "HOLED" :> [ hms |-> 40000, vms |-> 30000, pxs |-> 100, hgp |-> 10, vgp |-> 20,
                 cbh |-> 2000, size |-> ("2X2" :> <<2, 2>> @@ "2X4" :> <<2, 4>> @@ "4X4" :> <<4, 4>>) ] )

\* every type and size the window knows, and two requests it does not
AllRequests ==
  { <<t, z>> : t \in DOMAIN detectors, z \in {"1M", "4M", "2X2", "1X3", "7"} }
  \cup { <<t, z>> \in (DOMAIN detectors) \X
           UNION { DOMAIN detectors[t].size : t \in DOMAIN detectors } :
           z \in DOMAIN detectors[t].size }
  \cup { <<"XPAD", "1M">>, <<"eiger2", "4m">> }

InitDet ==
  Started({ DefaultConfig, [DefaultConfig EXCEPT !.det_size = "2M"] }, TiledDetectors)

NextDet == ChangeDetector(AllRequests)

SpecDet == InitDet /\ [][NextDet]_vars

(***************************************************************************)
(*                   The cif files and their reflections                   *)
(***************************************************************************)
\* the number of reflections of a cif file
CifLen == 4

\* reflection i of a cif file: its own d-spacing (1/10000 Angstrom) and hkl
Reflection(i, inten) == [hkl |-> <<i, 0, 0>>, d |-> 35000 - 5000 * i, inten |-> inten]

\* the intensities reflection i may have: with the strongest at 100, 5 is
\* below, 10 at and 100 above a tenth of it
Intensities(i) ==
  IF i <= 2 THEN {10, 100} ELSE IF i = 3 THEN {5, 10, 100} ELSE {5, 100}

\* the contents a dropped file may have; the last is the list
\* [(d=3.0, intensity=100), (d=2.5, intensity=5)]
CifContents ==
  { [i \in 1..CifLen |-> Reflection(i, f[i])] :
      f \in { g \in [1..CifLen -> {5, 10, 100}] : \A i \in 1..CifLen : g[i] \in Intensities(i) } }
  \cup { << Reflection(1, 100), Reflection(2, 5) >> }

InitCif == Started({ [DefaultConfig EXCEPT !.cont_ref_min_int = 10] }, << >>)

NextCif == DropCif([f \in {"x.cif"} |-> CifContents])

SpecCif == InitCif /\ [][NextCif]_vars

(***************************************************************************)
(*                         Calls of calc_conic                             *)
(***************************************************************************)
\* the configured geometries
ConicConfigs ==
  { [DefaultConfig EXCEPT !.dist = d, !.rota = r, !.xoff = x, !.yoff = y,
                          !.det_type = t[1], !.det_size = t[2]] :
      d \in {40, 75}, r \in {0, 10, 25}, x \in {0, 50, 150}, y \in {0, 100},
      t \in { <<"EIGER2", "4M">>, <<"PILATUS3", "300K">> } }
  \cup
  { [DefaultConfig EXCEPT !.dist = 40, !.rota = -25, !.xoff = x, !.yoff = y,
                          !.det_type = "PILATUS3", !.det_size = "300K"] :
      x \in {0, 50}, y \in {-100, 0} }

\* the cone angles asked for, in cdeg: every 5 degrees
ConicAngles == { 500 * k : k \in 1..35 }

\* calc_conic(omega, theta) is called on the window
CalcConicCall(angles) ==
  /\ alive
  /\ \E theta \in angles :
       call' = [ op |-> "calc_conic", omega |-> Omega(geo), theta |-> theta,
                 out |-> CalcConic(variant, geo, plo.xdim, plo.ydim,
                                   Omega(geo), theta, cont_steps) ]
  /\ UNCHANGED << variant, raised, detectors, geo, det, plo, contours, modules >>

InitConic == Started(ConicConfigs, << >>)

NextConic == CalcConicCall(ConicAngles)

SpecConic == InitConic /\ [][NextConic]_vars

(***************************************************************************)
(*                             Properties                                  *)
(***************************************************************************)
\* C1: calc_conic returns "not visible" without sampling any point whenever
\* theta > 90 deg + |tilt + rotation|; in particular theta = 170 deg with
\* rotation = 0 and tilt = 0 is never visible, whatever the distance, the
\* offsets and the detector
BackscatterIsInvisible ==
  call.op = "calc_conic" =>
    /\ call.theta > 9000 + Abs(call.omega) => call.out = Invisible("back")
    /\ call.theta = 17000 /\ geo.rota = 0 /\ geo.tilt = 0 => ~call.out.vis

\* C1 happens: 170 deg is asked for with rotation = tilt = 0, an offset
\* detector and the short distance
BackscatterCalled ==
  /\ call.op = "calc_conic"
  /\ call.theta = 17000 /\ call.omega = 0
  /\ geo.dist = 40 /\ geo.xoff = 50 /\ geo.yoff = 100
  /\ call.out = Invisible("back")

\* C2: after every completed draw_contours (startup, slider event,
\* change_units, change_detector) the curve of slot n is shown if and only
\* if calc_conic returns a visible, non-empty curve for angle n under the
\* current geometry, the label of slot n is shown if and only if the curve
\* is, and the shown curve is the one calc_conic returned
ContoursFollowConic ==
  alive =>
    \A n \in 1..cont_tth_num :
      \E r \in { CalcConic(variant, geo, plo.xdim, plo.ydim, Omega(geo), Ttd(n), cont_steps) } :
        /\ contours.conic[n].vis <=> (r.vis /\ Len(r.x) > 0)
        /\ contours.labels[n].vis <=> contours.conic[n].vis
        /\ contours.conic[n].vis =>
             contours.conic[n].x = r.x /\ contours.conic[n].y = r.y

\* C2 happens: a slot that was drawn before is hidden now, its old points
\* still in the item, while another slot is shown with its label
ContourHiddenAfterShown ==
  /\ alive
  /\ variant = "main"
  /\ geo.dist = 150
  /\ \E n, m \in 1..cont_tth_num :
       /\ ~contours.conic[n].vis /\ ~contours.labels[n].vis
       /\ Len(contours.conic[n].x) > 0
       /\ contours.conic[m].vis /\ contours.labels[m].vis

\* C3: in detgeo_pyqt6.py a reference entry n with lambda/2d > 1 at the
\* current energy is not rendered and raises no error, and no entry shifts:
\* a rendered reference curve in slot n is the conic of entry n of the
\* active series and carries the hkl of entry n, or no name when the
\* reference has no hkl
ReferenceSlotShowsEntry ==
  variant = "main" =>
    /\ raised \in {"", "SystemExit"}
    /\ alive =>
         \A n \in 1..cont_ref_num :
           /\ n <= Len(plo.cont_ref_dsp) /\ Unreachable(geo.ener, plo.cont_ref_dsp[n])
                => ~contours.ref[n].vis
           /\ contours.ref[n].vis /\ Len(contours.ref[n].x) > 0 =>
                /\ n <= Len(plo.cont_ref_dsp)
                /\ ~Unreachable(geo.ener, plo.cont_ref_dsp[n])
                /\ \E r \in { CalcConicMain(geo, plo.xdim, plo.ydim, Omega(geo),
                                            RefTheta(geo.ener, plo.cont_ref_dsp[n]),
                                            cont_steps) } :
                     r.vis /\ contours.ref[n].x = r.x /\ contours.ref[n].y = r.y
                /\ contours.ref[n].name =
                     IF plo.cont_ref_hkl.some THEN plo.cont_ref_hkl.v[n] ELSE << >>

\* C3 happens: at 5 keV the strongest reflection of the dropped file is out
\* of reach and hidden, the second one is rendered in slot 2 under its hkl
UnreachableEntrySkipped ==
  /\ variant = "main" /\ alive
  /\ geo.reference = "a.cif" /\ geo.ener = 5
  /\ Unreachable(geo.ener, plo.cont_ref_dsp[1])
  /\ ~contours.ref[1].vis
  /\ contours.ref[2].vis /\ Len(contours.ref[2].x) > 0
  /\ contours.ref[2].name = plo.cont_ref_hkl.v[2]
  /\ contours.ref[2].name # plo.cont_ref_hkl.v[1]

\* C4: get_cif_reference of detgeo_pyqt6.py discards a reflection if and
\* only if its intensity is below cont_ref_min_int x max(intensity): when no
\* more than cont_ref_num reflections are not below it, the stored series
\* holds exactly those; the list [(3.0, 100), (2.5, 5)] with 0.1 gives the
\* single entry d = 3.0
FilterKeepsNotBelow ==
  variant = "main" /\ alive /\ call.op = "get_cif_reference" =>
    LET refl == call.reflections
        notbelow == { i \in DOMAIN refl :
                        ~(refl[i].inten * 100 < MaxInten(refl) * plo.cont_ref_min_int) }
    IN  /\ Cardinality(notbelow) <= cont_ref_num =>
             { plo.cont_ref_dsp[k] : k \in DOMAIN plo.cont_ref_dsp }
               = { refl[i].d : i \in notbelow }
        /\ refl = << Reflection(1, 100), Reflection(2, 5) >> =>
             plo.cont_ref_dsp = << 30000 >>

\* C5: the series get_cif_reference stores has at most cont_ref_num entries
\* in non-increasing intensity, they are the strongest reflections that
\* passed the filter, and every entry keeps its own d-spacing and hkl at the
\* same index
StoredSeriesIsStrongest ==
  alive /\ call.op = "get_cif_reference" =>
    LET refl == call.reflections
        dsp  == plo.cont_ref_dsp
        hkl  == plo.cont_ref_hkl.v
        passed == IF variant = "main"
                    THEN { i \in DOMAIN refl :
                             refl[i].inten * 100 > MaxInten(refl) * plo.cont_ref_min_int }
                    ELSE { i \in DOMAIN refl : refl[i].inten * Len(refl) > SeqSum(refl) }
        kept == { i \in passed : \E k \in DOMAIN dsp : dsp[k] = refl[i].d }
        src(k) == CHOOSE i \in DOMAIN refl : refl[i].d = dsp[k]
    IN  /\ Len(dsp) <= cont_ref_num
        /\ Len(dsp) = Min(cont_ref_num, Cardinality(passed))
        /\ plo.cont_ref_hkl.some /\ Len(hkl) = Len(dsp)
        /\ \A k \in DOMAIN dsp :
             \E i \in passed : refl[i].d = dsp[k] /\ refl[i].hkl = hkl[k]
        /\ \A k, l \in DOMAIN dsp :
             k < l => dsp[k] # dsp[l] /\ refl[src(k)].inten >= refl[src(l)].inten
        /\ \A i \in passed \ kept : \A j \in kept : refl[i].inten <= refl[j].inten
        /\ geo.ref_custom[geo.reference] = dsp
        /\ geo.ref_custom_hkl[geo.reference] = plo.cont_ref_hkl

\* C5 happens: more reflections pass the filter than fit, and the
\* truncation removes a weaker one than the weakest it keeps
WeakerReflectionTruncated ==
  /\ alive /\ variant = "main" /\ call.op = "get_cif_reference"
  /\ Len(plo.cont_ref_dsp) = cont_ref_num
  /\ \E i, j \in DOMAIN call.reflections :
       /\ call.reflections[i].inten * 100
            > MaxInten(call.reflections) * plo.cont_ref_min_int
       /\ \A k \in DOMAIN plo.cont_ref_dsp : plo.cont_ref_dsp[k] # call.reflections[i].d
       /\ call.reflections[j].d = plo.cont_ref_dsp[cont_ref_num]
       /\ call.reflections[i].inten < call.reflections[j].inten

\* C6: for every detector with at least one module each way build_detector
\* adds exactly hmn x vmn rectangles of the module's size, no two at the same
\* place: the index range holds exactly n indices for odd and for even n
BuildsEveryModule ==
  alive =>
    /\ Len(modules) = det.hmn * det.vmn
    /\ Cardinality(ModuleRange(det.hmn)) = det.hmn
    /\ Cardinality(ModuleRange(det.vmn)) = det.vmn
    /\ \A k \in DOMAIN modules : modules[k].w = det.hms /\ modules[k].h = det.vms
    /\ \A k, l \in DOMAIN modules :
         k # l => modules[k].x # modules[l].x \/ modules[k].y # modules[l].y

\* C6 happens: a detector with an odd and an even module count is built
OddByEvenBuilt ==
  /\ alive
  /\ det.name = <<"TILED", "3X4">>
  /\ Len(modules) = 12

RejectionLeavesDetector ==
  /\ [](alive => \E t \in DOMAIN detectors : \E z \in DOMAIN detectors[t].size :
                   det = [ hms |-> detectors[t].hms, vms |-> detectors[t].vms,
                           pxs |-> detectors[t].pxs, hgp |-> detectors[t].hgp,
                           vgp |-> detectors[t].vgp, cbh |-> detectors[t].cbh,
                           hmn |-> detectors[t].size[z][1],
                           vmn |-> detectors[t].size[z][2], name |-> <<t, z>> ])
  /\ [](raised = "SystemExit" /\ modules = << >> => det = NoDet)
  /\ [][raised' = "SystemExit" =>
          /\ det' = det /\ modules' = modules /\ plo' = plo
          /\ contours' = contours /\ geo' = geo]_vars

\* C8 happens: a request was rejected while another detector than the
\* configured one was on the screen, and that one is still there
RejectedAfterChange ==
  /\ raised = "SystemExit"
  /\ det.name = <<"MPCCD", "4M">>
  /\ Len(modules) = 8
  /\ plo.xdim = 53600

\* C9: calc_conic of detgeo_pyqt6.py reports a conic as visible only if at
\* least one sampled point (x_k, y_k) lies inside the rectangle
\* [-xdim, xdim] x [-ydim, ydim]
VisibleHasPointInside ==
  variant = "main" /\ call.op = "calc_conic" /\ call.out.vis =>
    \E k \in DOMAIN call.out.x :
      /\ -plo.xdim <= call.out.x[k] /\ call.out.x[k] <= plo.xdim
      /\ -plo.ydim <= call.out.y[k] /\ call.out.y[k] <= plo.ydim

\* C10: for distance 75 mm, rotation 25 deg, tilt 0, no offsets, 21 keV
\* and theta = 90 deg on the EIGER2 4M, calc_conic selects the ellipse
\* branch and returns a visible, non-empty curve with y values on both
\* sides of y0
DefaultAt90IsEllipse ==
  /\ variant = "main" /\ call.op = "calc_conic" /\ call.theta = 9000
  /\ geo.dist = 75 /\ geo.rota = 25 /\ geo.tilt = 0 /\ geo.xoff = 0 /\ geo.yoff = 0
  /\ geo.ener = 21 /\ det.name = <<"EIGER2", "4M">>
  => /\ call.out.branch = "ellipse"
     /\ call.out.vis
     /\ Len(call.out.y) > 0
     /\ \E k, l \in DOMAIN call.out.y :
          /\ call.out.y[k] > ConicGeom(geo, call.omega, call.theta).y0
          /\ call.out.y[l] < ConicGeom(geo, call.omega, call.theta).y0

\* C10 as the code has it: for that geometry and theta = 90 deg the
\* eccentricity cos(90 deg - omega) / cos(theta) is beyond 100 in magnitude,
\* calc_conic selects the straight-line branch, the line lies beyond the
\* detector and the conic is returned as not visible, without points
DefaultAt90IsHiddenLine ==
  /\ variant = "main" /\ call.op = "calc_conic" /\ call.theta = 9000
  /\ geo.dist = 75 /\ geo.rota = 25 /\ geo.tilt = 0 /\ geo.xoff = 0 /\ geo.yoff = 0
  /\ geo.ener = 21 /\ det.name = <<"EIGER2", "4M">>
  => /\ Abs(Ecc(call.omega, call.theta)) >= 100 * SC
     /\ call.out = Invisible("line")

\* C10 happens: calc_conic was called with theta = 90 deg on the shipped
\* geometry and detector
DefaultAt90Called ==
  /\ variant = "main" /\ call.op = "calc_conic" /\ call.theta = 9000
  /\ call.omega = -2500
  /\ geo.dist = 75 /\ geo.rota = 25 /\ geo.tilt = 0 /\ geo.xoff = 0 /\ geo.yoff = 0
  /\ geo.ener = 21 /\ det.name = <<"EIGER2", "4M">>
  /\ ~call.out.vis /\ call.out.branch = "line"

\* the sampled points of out lie on the circle of radius r about (cx, cy),
\* within the resolution of the fixed-point sine table
OnCircle(out, cx, cy, r) ==
  \A k \in DOMAIN out.x :
    Abs(Hypot(out.x[k] - cx, out.y[k] - cy) - r) * 100 <= r + 5000

ReferenceShownIffCurrent ==
  variant = "main" /\ alive /\ geo.reference # "None" =>
    \A n \in 1..cont_ref_num :
      LET entry == /\ n <= Len(plo.cont_ref_dsp)
                   /\ plo.cont_ref_dsp[n] > 0
                   /\ LambdaD(geo.ener, plo.cont_ref_dsp[n]) <= SC
                   /\ ~Unreachable(geo.ener, plo.cont_ref_dsp[n])
          conic == CalcConicMain(geo, plo.xdim, plo.ydim, Omega(geo),
                                 RefTheta(geo.ener, plo.cont_ref_dsp[n]), cont_steps)
      IN  /\ contours.ref[n].vis <=> (entry /\ conic.vis)
          /\ contours.ref[n].vis =>
               contours.ref[n].x = conic.x /\ contours.ref[n].y = conic.y

\* C12 happens: the strongest reflection of the dropped file was drawn at
\* 21 keV and is hidden after the energy slider moved to 5 keV, where it is
\* out of reach; the slot still holds the points of the earlier curve
EarlierCurveHidden ==
  /\ variant = "main" /\ alive
  /\ geo.reference = "a.cif" /\ geo.ener = 5
  /\ Unreachable(geo.ener, plo.cont_ref_dsp[1])
  /\ ~contours.ref[1].vis /\ Len(contours.ref[1].x) > 0
  /\ contours.ref[2].vis

\* C13: in the variant detgeo_pyqt6_dd.py, after any sequence of slider
\* events, reference selections and cif drops, once draw_reference has
\* completed, reference slot n is visible only if the active series has an
\* entry n, its d-spacing is positive and within reach at the current energy,
\* and calc_conic reports its conic visible for the current geometry: no
\* curve of an earlier energy, geometry or reference stays visible in a slot
\* whose current entry is unreachable, non-intersecting or absent
VariantShownOnlyIfCurrent ==
  variant = "dd" /\ alive /\ geo.reference # "None" =>
    \A n \in 1..cont_ref_num :
      contours.ref[n].vis =>
        /\ n <= Len(plo.cont_ref_dsp)
        /\ plo.cont_ref_dsp[n] > 0
        /\ ~Unreachable(geo.ener, plo.cont_ref_dsp[n])
        /\ CalcConicDD(geo, plo.xdim, plo.ydim, Omega(geo),
                       RefTheta(geo.ener, plo.cont_ref_dsp[n]), cont_steps).vis

\* C14: in every state after startup, also after any number of
\* change_detector calls, the primary curve array and the label array have
\* exactly cont_tth_num slots and the reference array exactly cont_ref_num;
\* slot n of the primary arrays belongs to the n-th angle of the sweep: the
\* label shown in slot n carries the value of the n-th angle
SlotsAreFixedAndIndexed ==
  alive =>
    /\ Len(contours.conic) = cont_tth_num
    /\ Len(contours.labels) = cont_tth_num
    /\ Len(contours.ref) = cont_ref_num
    /\ \A n \in 1..cont_tth_num :
         contours.labels[n].vis =>
           /\ contours.conic[n].vis
           /\ contours.labels[n].val = UnitValue(geo.unit, Ttd(n), Ttd(n), geo.ener)

\* C14 happens: the detector was changed to MPCCD, the sweep was drawn again
\* and two labels with different values are shown in two slots
SlotsAfterDetectorChange ==
  /\ alive /\ det.name = <<"MPCCD", "4M">>
  /\ Len(contours.conic) = cont_tth_num
  /\ \E n, m \in 1..cont_tth_num :
       /\ n < m /\ contours.labels[n].vis /\ contours.labels[m].vis
       /\ contours.labels[n].val # contours.labels[m].val

\* C15: a slider event (dist, rota, tilt, yoff, xoff, ener) stores the new
\* value in the geometry and then redraws every primary contour with the new
\* geometry, and redraws the reference contours if and only if the selected
\* reference is not 'None'; change_reference and a cif drop redraw the
\* reference contours and leave the primary ones; no step changes the
\* geometry without the redraw
GeometryChangeIsRedrawn ==
  [][ /\ ( /\ geo' # geo /\ geo'.reference = geo.reference /\ geo'.unit = geo.unit
           /\ det' = det ) =>
           LET dc  == draw_contours(variant, geo', plo.xdim, plo.ydim, contours)
               ref == get_reference(variant, geo'.reference, cont_ref_num,
                                    geo'.ref_custom, geo'.ref_custom_hkl)
               dr  == draw_reference(variant, geo', plo.xdim, plo.ydim,
                                     ref.dsp, ref.hkl, contours.ref)
           IN  /\ contours'.conic = dc.conic /\ contours'.labels = dc.labels
               /\ contours'.ref = IF dc.raised = "" /\ geo'.reference # "None"
                                    THEN dr.ref ELSE contours.ref
               /\ raised' = IF dc.raised = "" /\ geo'.reference # "None"
                              THEN dr.raised ELSE dc.raised
      /\ geo'.reference # geo.reference =>
           LET dr == draw_reference(variant, geo', plo'.xdim, plo'.ydim,
                                    plo'.cont_ref_dsp, plo'.cont_ref_hkl, contours.ref)
           IN  /\ contours'.ref = dr.ref /\ raised' = dr.raised
               /\ contours'.conic = contours.conic /\ contours'.labels = contours.labels
               /\ plo'.cont_ref_dsp = IF call' # call
                    THEN geo'.ref_custom[geo'.reference]
                    ELSE get_reference(variant, geo'.reference, cont_ref_num,
                                       geo.ref_custom, geo.ref_custom_hkl).dsp
    ]_vars

\* C15 happens: with LaB6 selected the energy slider was moved to 5 keV and
\* both the primary and the reference contours are drawn for 5 keV
SliderRedrewBoth ==
  /\ alive /\ geo.reference = "LaB6" /\ geo.ener = 5
  /\ contours.ref[1].vis /\ Len(contours.ref[1].x) > 0
  /\ contours.labels[1].vis
  /\ contours.labels[1].val = UnitValue(geo.unit, Ttd(1), Ttd(1), 5)
  /\ contours.labels[1].val # UnitValue(geo.unit, Ttd(1), Ttd(1), 21)

\* C16: the module rectangles and both half-extents are recomputed only on
\* a detector selection: every step that leaves the detector as it is (a
\* slider event, change_units, change_reference, a cif drop) leaves the
\* module layout, plo.xdim and plo.ydim unchanged, and they are always those
\* of the selected detector
LayoutChangesWithDetectorOnly ==
  [][ /\ det' = det =>
           /\ modules' = modules
           /\ plo'.xdim = plo.xdim /\ plo'.ydim = plo.ydim
      /\ alive' =>
           /\ modules' = build_detector(det')
           /\ plo'.xdim = XDim(det') /\ plo'.ydim = YDim(det')
    ]_vars

\* C16 happens: on the MPCCD the energy, the unit and the reference have
\* been changed and the layout is still the one of the MPCCD
LayoutKeptThroughEvents ==
  /\ alive /\ det.name = <<"MPCCD", "4M">>
  /\ geo.ener = 5 /\ geo.unit = 3 /\ geo.reference = "a.cif"
  /\ modules = build_detector(det) /\ Len(modules) = det.hmn * det.vmn
  /\ plo.xdim = XDim(det) /\ plo.ydim = YDim(det)

\* C17: with central hole 0, along each axis an odd module count puts the
\* origin (the beam) at the centre of one module and an even count puts it
\* on the boundary between the two central modules, at the midpoint of their
\* gap; in both cases the module intervals along the axis are
\* mirror-symmetric about 0
OriginCentredOrBetween ==
  alive /\ det.cbh = 0 =>
    LET M  == { modules[k] : k \in DOMAIN modules }
        gx == det.hgp * det.pxs
        gy == det.vgp * det.pxs
    IN  /\ \A m \in M : \E o \in M : o.x = -(m.x + m.w) /\ o.y = -(m.y + m.h)
        /\ IF det.hmn % 2 = 1
             THEN \E m \in M : 2 * m.x + m.w = 0
             ELSE /\ \E m \in M : 2 * m.x = gx
                  /\ \E m \in M : 2 * (m.x + m.w) = -gx
                  /\ \A m \in M : ~(m.x < 0 /\ 0 < m.x + m.w)
        /\ IF det.vmn % 2 = 1
             THEN \E m \in M : 2 * m.y + m.h = 0
             ELSE /\ \E m \in M : 2 * m.y = gy
                  /\ \E m \in M : 2 * (m.y + m.h) = -gy
                  /\ \A m \in M : ~(m.y < 0 /\ 0 < m.y + m.h)

\* C17 happens: a detector of 3 x 2 modules with gaps and no hole is built
OddByEvenCentred ==
  /\ alive /\ det.cbh = 0 /\ det.hmn = 3 /\ det.vmn = 2
  /\ det.hgp > 0 /\ det.vgp > 0
  /\ Len(modules) = 6
  /\ \E k \in DOMAIN modules : 2 * modules[k].x + modules[k].w = 0

\* C18: when the reference has no intensities (a pyFAI calibrant),
\* get_reference takes the first cont_ref_num d-spacings of the source in
\* source order, without reordering or filtering, and sets hkl to none
CalibrantTakenAsGiven ==
  alive /\ geo.reference \in ref_library =>
    /\ Len(plo.cont_ref_dsp) = Min(cont_ref_num, Len(Calibrant[geo.reference]))
    /\ \A i \in DOMAIN plo.cont_ref_dsp :
         plo.cont_ref_dsp[i] = Calibrant[geo.reference][i]
    /\ plo.cont_ref_hkl = NoHkl

\* C18 happens: LaB6 is selected after a cif file with hkl was dropped; the
\* series is the head of the longer calibrant list and has no hkl
CalibrantAfterCif ==
  /\ alive /\ geo.reference = "LaB6" /\ "a.cif" \in DOMAIN geo.ref_custom
  /\ Len(Calibrant["LaB6"]) > cont_ref_num
  /\ plo.cont_ref_dsp = SubSeq(Calibrant["LaB6"], 1, cont_ref_num)
  /\ plo.cont_ref_dsp[1] = 41569
  /\ ~plo.cont_ref_hkl.some

(***************************************************************************)
(*        The sweep of draw_contours, one angle at a time, any order       *)
(***************************************************************************)
\* the values the sliders are moved to before a sweep
SweepValues == [ dist |-> {75, 150}, rota |-> {0, 25}, xoff |-> {0, 50} ]

\* a slider stores its value and the sweep over the angles begins: no angle
\* has been solved yet, before holds the slots as they were
BeginSweep ==
  /\ alive
  /\ call.op = "draw_contours" => call.done = 1..cont_tth_num
  /\ \E name \in DOMAIN SweepValues : \E val \in SweepValues[name] :
       geo' = [geo EXCEPT ![name] = val]
  /\ call' = [op |-> "draw_contours", done |-> {}, before |-> contours]
  /\ UNCHANGED << variant, raised, detectors, det, plo, contours, modules >>

\* the loop body runs for one of the angles not solved yet
DrawSlot ==
  /\ alive
  /\ call.op = "draw_contours"
  /\ \E n \in (1..cont_tth_num) \ call.done :
       /\ \E c \in { draw_contour(variant, geo, plo.xdim, plo.ydim, contours, n) } :
            /\ contours' = [contours EXCEPT !.conic = c.conic, !.labels = c.labels]
            /\ raised' = c.raised
       /\ call' = [call EXCEPT !.done = @ \cup {n}]
  /\ UNCHANGED << variant, detectors, geo, det, plo, modules >>

InitSweep == Started({ DefaultConfig }, << >>)

NextSweep == BeginSweep \/ DrawSlot

SpecSweep == InitSweep /\ [][NextSweep]_vars

\* C19: calc_conic changes no state and the result for one angle does not
\* depend on which other angles were solved before: whatever the order in
\* which the angle indices of draw_contours are processed, every processed
\* slot holds what the loop of draw_contours in index order leaves in it,
\* every other slot is as it was, and the final arrays are the same
SweepOrderIsImmaterial ==
  alive /\ call.op = "draw_contours" =>
    \E dc \in { draw_contours(variant, geo, plo.xdim, plo.ydim, call.before) } :
      \A n \in 1..cont_tth_num :
        /\ n \in call.done =>
             /\ contours.conic[n] = dc.conic[n]
             /\ contours.labels[n] = dc.labels[n]
        /\ n \notin call.done =>
             /\ contours.conic[n] = call.before.conic[n]
             /\ contours.labels[n] = call.before.labels[n]

\* C19 happens: the last angle was solved first and the first is still to
\* come; a shown slot has been redrawn before a lower one
LastAngleSolvedFirst ==
  /\ alive /\ call.op = "draw_contours"
  /\ cont_tth_num \in call.done /\ 1 \notin call.done
  /\ geo.dist = 150
  /\ \E n \in call.done : contours.conic[n].vis /\ contours.conic[n] # call.before.conic[n]

(***************************************************************************)
(*             From the cone angle to the d-spacing and back               *)
(***************************************************************************)
\* the angles of the shipped sweep, np.linspace(5, 150, 30), and those of
\* the model's sweep, in cdeg
SweepAngles == { 500 * k : k \in 1..30 } \cup { Ttd(n) : n \in 1..cont_tth_num }

\* the range of the energy slider, keV
SweepEnergies == 5..100

\* the window after startup, with an angle of the sweep and an energy of
\* the slider still to be converted
InitConvert ==
  /\ variant \in {"main", "dd"}
  /\ detectors = get_det_library(variant, << >>)
  /\ \E s \in { Startup(variant, detectors, DefaultConfig) } :
       /\ raised = s.raised
       /\ geo = s.geo
       /\ det = s.det
       /\ plo = s.plo
       /\ contours = s.contours
       /\ modules = s.modules
  /\ call \in [op : {"angle"}, theta : SweepAngles, ener : SweepEnergies]

\* draw_contours converts the angle to a d-spacing at the energy, and
\* draw_reference converts that d-spacing back to an angle
ConvertCall ==
  /\ alive
  /\ call.op = "angle"
  /\ \E d \in { Dsp(call.theta, call.ener) } :
       call' = [ op |-> "convert", theta |-> call.theta, ener |-> call.ener, dsp |-> d,
                 lambda_d |-> LambdaD(call.ener, d),
                 unreachable |-> Unreachable(call.ener, d),
                 back |-> RefTheta(call.ener, d) ]
  /\ UNCHANGED << variant, raised, detectors, geo, det, plo, contours, modules >>

NextConvert == ConvertCall

SpecConvert == InitConvert /\ [][NextConvert]_vars

\* C20: for every theta of the sweep and every energy, the d-spacing
\* d = 1/(2*sin(theta/2)/(12.398/E)) converts back, by
\* theta' = 2*arcsin((12.398/E)/(2*d)), to theta within the resolution of the
\* arithmetic (half a degree in the model), and it never meets the
\* unreachable condition (12.398/E)/(2*d) > 1
SweepAngleRoundTrips ==
  call.op = "convert" =>
    /\ ~call.unreachable
    /\ call.lambda_d <= SC
    /\ call.back # NaN
    /\ Abs(call.back - call.theta) <= 50

\* C20 happens: the largest angle of the sweep, 150 deg, was converted at
\* the lowest energy, 5 keV, to a d-spacing of about 1.28 Angstrom and back
LargestAngleConverted ==
  /\ call.op = "convert" /\ call.theta = 15000 /\ call.ener = 5
  /\ call.dsp > 12000 /\ call.dsp < 13500
  /\ call.lambda_d > 9000
  /\ call.back # call.theta \/ call.back = 15000


\* ---------------------------------------------------------------------
\* The sampling of the ellipse (calc_conic of detgeo_pyqt6.py)

\* the cone of the conic the current call asks for
CallCone == ConicGeom(geo, call.omega, call.theta) @@ [theta |-> call.theta]

\* the points calc_conic samples in the current call, before the crop
CallSamples == SamplesMain(CallCone, plo.xdim, plo.ydim, call.omega, cont_steps)

\* the current call of calc_conic reached the ellipse branch
EllipseCalled ==
  /\ call.op = "calc_conic"
  /\ variant = "main"
  /\ ~Backscatter(call.omega, call.theta)
  /\ Branch(CallCone.ecc) = "ellipse"

\* the ellipse of half width w lies within the margin of 1.05 half extents
InsideMargin(w) ==
  /\ CallCone.x0 - w >= -P105(plo.xdim)
  /\ CallCone.x0 + w <= P105(plo.xdim)

\* the ellipse of half width w passes the margin on the left and on the right
BeyondBothMargins(w) ==
  /\ CallCone.x0 - w < -P105(plo.xdim)
  /\ CallCone.x0 + w > P105(plo.xdim)

\* the x values of the whole parameter range 0..2 pi of the ellipse
FullRangeX(w) ==
  Array([k \in 1..(2 * cont_steps) |->
           Clamp(CallCone.x0 + MulS(w, Sin(Linspace(0, 36000, 2 * cont_steps, k - 1))))])

\* every sampled x lies within the margin, to the 0.1 mm of the arithmetic
WithinMargin(xs) ==
  \A k \in DOMAIN xs :
     xs[k] >= -P105(plo.xdim) - 100 /\ xs[k] <= P105(plo.xdim) + 100

\* C21 as stated: the full range is sampled only for an ellipse within the
\* margin, and an ellipse passing the margin on either side is sampled as
\* two arcs whose x values stay within the margin
ArcsWhenBeyondEitherMargin ==
  EllipseCalled =>
    /\ CallSamples.x = FullRangeX(EllipseW(CallCone)) => InsideMargin(EllipseW(CallCone))
    /\ ~InsideMargin(EllipseW(CallCone)) => WithinMargin(CallSamples.x)

\* C21: the ellipse is sampled as two arcs, with every x within the margin,
\* exactly when it passes the margin on both sides; an ellipse that passes it
\* on one side only, or on none, is sampled over the full range 0..2 pi
ArcsWhenBeyondBothMargins ==
  EllipseCalled =>
    IF BeyondBothMargins(EllipseW(CallCone))
      THEN /\ WithinMargin(CallSamples.x)
           /\ CallSamples.x # FullRangeX(EllipseW(CallCone))
      ELSE CallSamples.x = FullRangeX(EllipseW(CallCone))

\* an ellipse passing the margin on both sides was sampled
EllipseBeyondBothMargins ==
  /\ EllipseCalled
  /\ BeyondBothMargins(EllipseW(CallCone))


\* ---------------------------------------------------------------------
\* The crop of the sampled points (calc_conic of detgeo_pyqt6_dd.py)

\* the longest run of sampled points handed to the crop
CropLen == 3

\* sampled coordinates: left of / below the cropped area, at its centre,
\* right of / above it
CropCoordinates == { -200000, 0, 200000 }

\* sampled points x, y of one length
CropSamples ==
  UNION { [x : [1..n -> CropCoordinates], y : [1..n -> CropCoordinates]] : n \in 1..CropLen }

\* the variant is started and calc_conic has sampled the points x, y for
\* the cone angle theta
InitCrop ==
  /\ variant = "dd"
  /\ detectors = get_det_library(variant, << >>)
  /\ \E s \in { Startup(variant, detectors, DefaultConfig) } :
       /\ raised = s.raised
       /\ geo = s.geo
       /\ det = s.det
       /\ plo = s.plo
       /\ contours = s.contours
       /\ modules = s.modules
  /\ \E p \in CropSamples, theta \in {4000, 10000} :
       call = [op |-> "samples", x |-> p.x, y |-> p.y, theta |-> theta]

\* calc_conic crops the sampled points and chooses the label anchor
CropCall ==
  /\ alive
  /\ call.op = "samples"
  /\ call' = [ op |-> "crop", x |-> call.x, y |-> call.y, theta |-> call.theta,
               out |-> CropDD("ellipse", call.x, call.y, P110(plo.xdim), P110(plo.ydim),
                              Omega(geo), call.theta) ]
  /\ UNCHANGED << variant, raised, detectors, geo, det, plo, contours, modules >>

NextCrop == CropCall

SpecCrop == InitCrop /\ [][NextCrop]_vars

\* C22 as stated: the crop reports the curve as not visible or returns a
\* non-empty run of the samples, and the label anchor is chosen without an
\* exception
CropIsNeverEmpty ==
  call.op = "crop" =>
    /\ ~call.out.err
    /\ call.out.vis => call.out.x # << >> /\ call.out.y # << >>


\* ---------------------------------------------------------------------
\* The branches of calc_conic (detgeo_pyqt6.py)

\* C23: a call of calc_conic that passes the backscatter guard takes exactly
\* one of the five branches, the one its rounded eccentricity selects: circle
\* iff |ecc| = 0, ellipse iff 0 < |ecc| < 1, parabola iff |ecc| = 1, hyperbola
\* iff 1 < |ecc| < 100, line iff |ecc| >= 100; x and y are sampled in each
BranchesPartition ==
  (call.op = "calc_conic" /\ variant = "main" /\ ~Backscatter(call.omega, call.theta)) =>
    /\ call.out.branch \in {"circle", "ellipse", "parabola", "hyperbola", "line"}
    /\ call.out.branch = "circle" <=> Abs(CallCone.ecc) = 0
    /\ call.out.branch = "ellipse" <=> (0 < Abs(CallCone.ecc) /\ Abs(CallCone.ecc) < SC)
    /\ call.out.branch = "parabola" <=> Abs(CallCone.ecc) = SC
    /\ call.out.branch = "hyperbola" <=>
         (SC < Abs(CallCone.ecc) /\ Abs(CallCone.ecc) < 100 * SC)
    /\ call.out.branch = "line" <=> Abs(CallCone.ecc) >= 100 * SC
    /\ Len(CallSamples.x) > 0
    /\ Len(CallSamples.y) = Len(CallSamples.x)

\* the last branch of the chain was taken: a straight line
LineBranchTaken ==
  /\ call.op = "calc_conic"
  /\ variant = "main"
  /\ ~Backscatter(call.omega, call.theta)
  /\ Abs(CallCone.ecc) >= 100 * SC
  /\ call.out.branch = "line"


\* ---------------------------------------------------------------------
\* The label anchor of calc_conic (detgeo_pyqt6.py)

\* C24: the label anchor of a visible curve is the y of one of the returned
\* points: the largest when omega <= 0 and theta < 90 degrees or omega > 0
\* and theta >= 90 degrees, and the smallest otherwise
LabelIsExtremeY ==
  (call.op = "calc_conic" /\ variant = "main" /\ call.out.vis) =>
    /\ \E k \in DOMAIN call.out.y : call.out.y[k] = call.out.label
    /\ \A k \in DOMAIN call.out.y : call.out.y[k] # NaN
    /\ IF \/ call.omega <= 0 /\ call.theta < 9000
          \/ call.omega > 0 /\ call.theta >= 9000
         THEN \A k \in DOMAIN call.out.y : call.out.y[k] <= call.out.label
         ELSE \A k \in DOMAIN call.out.y : call.out.y[k] >= call.out.label

\* a visible curve of a cone of 90 degrees or wider on a detector turned the
\* other way, with points at different heights
WideConeLabelled ==
  /\ call.op = "calc_conic"
  /\ variant = "main"
  /\ call.out.vis
  /\ call.omega > 0
  /\ call.theta >= 9000
  /\ \E k \in DOMAIN call.out.y : call.out.y[k] < call.out.label


\* ---------------------------------------------------------------------
\* The central hole (build_detector)

\* C25: the modules of a detector with a central hole leave the open square
\* of the side of the hole, centred on the beam, free, and each module lies
\* half the hole to one side of its place without the hole along each axis
HoleIsOpen ==
  (alive /\ det.cbh > 0) =>
    /\ \A k \in DOMAIN modules :
         ~ ( /\ 2 * modules[k].x < det.cbh
             /\ 2 * (modules[k].x + modules[k].w) > -det.cbh
             /\ 2 * modules[k].y < det.cbh
             /\ 2 * (modules[k].y + modules[k].h) > -det.cbh )
    /\ Len(modules) = Len(build_detector([det EXCEPT !.cbh = 0]))
    /\ \A k \in DOMAIN modules :
         /\ 2 * Abs(modules[k].x - build_detector([det EXCEPT !.cbh = 0])[k].x) = det.cbh
         /\ 2 * Abs(modules[k].y - build_detector([det EXCEPT !.cbh = 0])[k].y) = det.cbh

\* the MPCCD 4M with its hole of 3 mm is built
HoledDetectorBuilt ==
  /\ alive
  /\ det.name = << "MPCCD", "4M" >>
  /\ det.cbh = 3000
  /\ Len(modules) = 8


\* ---------------------------------------------------------------------
\* The modules within the visible area (build_detector, init_screen)

\* C26: every module rectangle lies within the visible area of the half
\* extents xdim and ydim, and no two module rectangles overlap
ModulesInsideAndApart ==
  alive =>
    /\ \A k \in DOMAIN modules :
         /\ -plo.xdim <= modules[k].x
         /\ modules[k].x + modules[k].w <= plo.xdim
         /\ -plo.ydim <= modules[k].y
         /\ modules[k].y + modules[k].h <= plo.ydim
    /\ \A k, l \in DOMAIN modules :
         k < l =>
           \/ modules[k].x + modules[k].w <= modules[l].x
           \/ modules[l].x + modules[l].w <= modules[k].x
           \/ modules[k].y + modules[k].h <= modules[l].y
           \/ modules[l].y + modules[l].h <= modules[k].y

\* the largest detector of the library is built: 5 by 12 modules
LargestDetectorBuilt ==
  /\ alive
  /\ det.name = << "PILATUS3", "6M" >>
  /\ Len(modules) = 60


\* ---------------------------------------------------------------------
\* No reference selected (detgeo_pyqt6.py)

\* C27: selecting the reference 'None' hides every reference curve, and a
\* slider event or a change of the unit made while 'None' is selected and no
\* reference curve is visible shows none
NoneStaysHidden ==
  [][ variant = "main" /\ raised' = "" =>
        /\ (geo.reference # "None" /\ geo'.reference = "None") =>
             \A n \in DOMAIN contours'.ref : ~contours'.ref[n].vis
        /\ ( /\ geo.reference = "None" /\ geo'.reference = "None"
             /\ geo' # geo
             /\ \A n \in DOMAIN contours.ref : ~contours.ref[n].vis ) =>
             \A n \in DOMAIN contours'.ref : ~contours'.ref[n].vis
    ]_vars

\* LaB6 was drawn at 21 keV and deselected, and the energy slider was moved
\* to 5 keV afterwards: the first slot is hidden and still holds the curve
\* of 21 keV
SliderMovedAfterNone ==
  /\ variant = "main"
  /\ alive
  /\ geo.reference = "None"
  /\ geo.ener = 5
  /\ \A n \in DOMAIN contours.ref : ~contours.ref[n].vis
  /\ contours.ref[1].x # << >>
  /\ contours.ref[1].x =
       CalcConicMain(geo, plo.xdim, plo.ydim, Omega(geo),
                     RefTheta(21, Calibrant["LaB6"][1]), cont_steps).x


\* ---------------------------------------------------------------------
\* The frame of a slider event (update_screen of detgeo_pyqt6.py)

\* C28: in every state of the window, update_screen called by the slider
\* named X with a value sets the field X of the geometry to that value and
\* leaves the other geometry fields, the unit, the reference, the custom
\* references and the detector as they are; called by a sender of another
\* name it changes none of them
SliderSetsItsField ==
  (alive /\ variant = "main") =>
    LET Sets(s, name, val) == s.geo = [geo EXCEPT ![name] = val] /\ s.det = det
        Keeps(s) == s.geo = geo /\ s.det = det
    IN  /\ \A name \in SliderNames :
             \A val \in SliderValues[name] \cup GeometryValues[name] :
               Sets(update_screen(variant, Window, name, val), name, val)
        /\ \A name \in {"", "zoom"} :
             Keeps(update_screen(variant, Window, name, 50))

\* the energy slider was moved to 5 keV while a dropped cif file is the
\* reference: every other field is as configured
EnergySliderMoved ==
  /\ alive
  /\ variant = "main"
  /\ geo.ener = 5
  /\ geo.reference \in DOMAIN geo.ref_custom
  /\ geo.dist = DefaultConfig.dist
  /\ geo.rota = DefaultConfig.rota
  /\ geo.unit = DefaultConfig.unit


\* ---------------------------------------------------------------------
\* The unit of the contour labels (startup, draw_contours, change_units)

\* the configured units: each valid one, one below and one above
UnitConfigs == { [DefaultConfig EXCEPT !.unit = u] : u \in -1..4 }

\* the values the sliders are moved to while the unit changes
UnitSliderValues == [GeometryValues EXCEPT !.ener = {5, 21}, !.dist = {75}]

InitUnit == Started(UnitConfigs, << >>)

NextUnit ==
  \/ ChangeUnits
  \/ SliderEvent(UnitSliderValues)

SpecUnit == InitUnit /\ [][NextUnit]_vars

\* C29 as stated: a window configured with a unit outside 0..3 ends with
\* SystemExit at startup, and the lookup of the label by the unit never
\* raises KeyError
UnitOutsideRangeIsRejected ==
  /\ geo.unit \notin 0..3 => raised = "SystemExit"
  /\ raised # "KeyError"


\* ---------------------------------------------------------------------
\* The d-spacings and their hkl (get_reference, get_cif_reference)

\* C30: the active d-spacings are at most cont_ref_num, and an hkl list that
\* is present has one entry per d-spacing and is the list stored, with these
\* d-spacings, under the name of the selected reference
HklBelongsToDsp ==
  alive =>
    /\ Len(plo.cont_ref_dsp) <= cont_ref_num
    /\ plo.cont_ref_hkl.some =>
         /\ Len(plo.cont_ref_hkl.v) = Len(plo.cont_ref_dsp)
         /\ geo.reference \in DOMAIN geo.ref_custom
         /\ geo.reference \notin ref_library
         /\ plo.cont_ref_dsp = geo.ref_custom[geo.reference]
         /\ plo.cont_ref_hkl = geo.ref_custom_hkl[geo.reference]

\* the reflections of a dropped file are the reference, cut to cont_ref_num,
\* and a slot is drawn with its hkl
CifReferenceDrawn ==
  /\ alive
  /\ geo.reference = "a.cif"
  /\ plo.cont_ref_hkl.some
  /\ Len(plo.cont_ref_dsp) = cont_ref_num
  /\ \E n \in DOMAIN contours.ref :
       contours.ref[n].vis /\ contours.ref[n].name = plo.cont_ref_hkl.v[n]

=============================================================================
